---- MODULE Spec2Model ----
(***************************************************************************)
(* A model of the iSuper bike protocol client (src/isuper_bike.py): the    *)
(* ISuperBike object, its transport (connect, send, receive, disconnect),  *)
(* the frame codec inside receive, the command parser, the telemetry       *)
(* decoder and the initialization handshake.                               *)
(*                                                                         *)
(* Text is modelled as a sequence of one-character strings, so that the    *)
(* string operations of the source (replace, strip, split, join, ljust,    *)
(* isdigit, int) are computed the way Python computes them.                *)
(*                                                                         *)
(* Floating-point fields are kept as exact integers in a fixed unit:       *)
(*   wheel_diameter  in hundredths of an inch         (21.0  -> 2100)      *)
(*   calories        in hundredths of a kcal          (5.0   -> 500)       *)
(*   distance        as wheel_diameter(1/100 in) * full_dist, i.e. in      *)
(*                   units of 3.14159 * 2.54 / 10^7 km                     *)
(*   speed           as rpm * 55, i.e. in units of 0.00478536 km/h         *)
(***************************************************************************)
EXTENDS Integers, Sequences, FiniteSets, TLC

(***************************************************************************)
(* Python values                                                           *)
(***************************************************************************)
\* Python's None and a present value, as a sequence of length 0 or 1.
None == << >>

Some(x) == << x >>

IsNone(o) == Len(o) = 0

(***************************************************************************)
(* Python str operations on sequences of characters                        *)
(***************************************************************************)
Digits == {"0", "1", "2", "3", "4", "5", "6", "7", "8", "9"}

HexChars == Digits \cup {"a", "b", "c", "d", "e", "f", "A", "B", "C", "D", "E", "F"}

\* str.strip() with no argument removes these from both ends.
Whitespace == {" ", "\t", "\n", "\r", "\f"}

DigitVal(c) ==
  CASE c = "0" -> 0 [] c = "1" -> 1 [] c = "2" -> 2 [] c = "3" -> 3
    [] c = "4" -> 4 [] c = "5" -> 5 [] c = "6" -> 6 [] c = "7" -> 7
    [] c = "8" -> 8 [] c = "9" -> 9

\* str.upper() on one character of the hexadecimal alphabet.
UpperChar(c) ==
  CASE c = "a" -> "A" [] c = "b" -> "B" [] c = "c" -> "C"
    [] c = "d" -> "D" [] c = "e" -> "E" [] c = "f" -> "F"
    [] OTHER -> c

Upper(s) == [k \in 1..Len(s) |-> UpperChar(s[k])]

\* s[a:b] with 0-based, end-exclusive Python indices, 0 <= a.
Slice(s, a, b) ==
  LET hi == IF b > Len(s) THEN Len(s) ELSE b
  IN IF a >= hi THEN << >> ELSE SubSeq(s, a + 1, hi)

\* s.startswith(p)
StartsWith(s, p) == Len(s) >= Len(p) /\ SubSeq(s, 1, Len(p)) = p

\* p in s  (substring test)
Contains(s, p) ==
  \E k \in 0..(Len(s) - Len(p)) : SubSeq(s, k + 1, k + Len(p)) = p

\* s.replace(old, new), left to right, non-overlapping; old is not empty.
RECURSIVE Replace(_, _, _)
Replace(s, old, new) ==
  IF Len(s) < Len(old) THEN s
  ELSE IF SubSeq(s, 1, Len(old)) = old
       THEN new \o Replace(SubSeq(s, Len(old) + 1, Len(s)), old, new)
       ELSE << s[1] >> \o Replace(Tail(s), old, new)

\* s.split(sep): always at least one part; sep is not empty.
RECURSIVE SplitFrom(_, _, _)
SplitFrom(s, sep, cur) ==
  IF Len(s) < Len(sep) THEN << cur \o s >>
  ELSE IF SubSeq(s, 1, Len(sep)) = sep
       THEN << cur >> \o SplitFrom(SubSeq(s, Len(sep) + 1, Len(s)), sep, << >>)
       ELSE SplitFrom(Tail(s), sep, Append(cur, s[1]))

Split(s, sep) == SplitFrom(s, sep, << >>)

\* sep.join(parts)
RECURSIVE Join(_, _)
Join(parts, sep) ==
  IF Len(parts) = 0 THEN << >>
  ELSE IF Len(parts) = 1 THEN parts[1]
       ELSE parts[1] \o sep \o Join(Tail(parts), sep)

\* s.strip()
RECURSIVE LStrip(_)
LStrip(s) == IF Len(s) > 0 /\ s[1] \in Whitespace THEN LStrip(Tail(s)) ELSE s

RECURSIVE RStrip(_)
RStrip(s) ==
  IF Len(s) > 0 /\ s[Len(s)] \in Whitespace
  THEN RStrip(SubSeq(s, 1, Len(s) - 1)) ELSE s

Strip(s) == RStrip(LStrip(s))

\* s.ljust(width, '0'): pads on the right, never truncates.
RECURSIVE Ljust(_, _)
Ljust(s, width) == IF Len(s) >= width THEN s ELSE Ljust(Append(s, "0"), width)

\* s.isdigit(): not empty and digits only.
IsDigit(s) == Len(s) > 0 /\ \A k \in 1..Len(s) : s[k] \in Digits

\* The value of a string of digits.
RECURSIVE DecVal(_)
DecVal(s) ==
  IF Len(s) = 0 THEN 0
  ELSE 10 * DecVal(SubSeq(s, 1, Len(s) - 1)) + DigitVal(s[Len(s)])

\* int(s): surrounding whitespace is ignored, one sign is allowed, and single
\* underscores may separate digits.  IntOK is "int(s) does not raise".
IntBody(s) ==
  LET t == Strip(s)
  IN IF Len(t) > 0 /\ t[1] \in {"+", "-"} THEN Tail(t) ELSE t

IntNeg(s) == LET t == Strip(s) IN Len(t) > 0 /\ t[1] = "-"

IntOK(s) ==
  LET d == IntBody(s)
  IN /\ Len(d) > 0
     /\ \A k \in 1..Len(d) : d[k] \in Digits \cup {"_"}
     /\ d[1] # "_"
     /\ d[Len(d)] # "_"
     /\ \A k \in 1..(Len(d) - 1) : ~(d[k] = "_" /\ d[k + 1] = "_")

IntVal(s) ==
  LET v == DecVal(Replace(IntBody(s), << "_" >>, << >>))
  IN IF IntNeg(s) THEN 0 - v ELSE v

(***************************************************************************)
(* Literal texts of the protocol                                           *)
(***************************************************************************)
LT == "<"

GT == ">"

OK == << "O", "K" >>

SUPERWIGH == << "S", "U", "P", "E", "R", "W", "I", "G", "H" >>

\* The frame <code_data> and the frame <code> with no underscore.
Frame(code, data) == << LT >> \o code \o << "_" >> \o data \o << GT >>

Bare(code) == << LT >> \o code \o << GT >>

EQ == << "E", "Q" >>

EP == << "E", "P" >>

ET == << "E", "T" >>

ER == << "E", "R" >>

EA == << "E", "A" >>

ED == << "E", "D" >>

EM == << "E", "M" >>

EU == << "E", "U" >>

EV == << "E", "V" >>

Ez == << "E", "z" >>

W6 == << "W", "6" >>

CP == << "C", "P" >>

\* The frames the client sends.
EQ_ == Frame(EQ, << >>)

EP_OK == Frame(EP, OK)

ER_OK == Frame(ER, OK)

EA_OK == Frame(EA, OK)

ED_OK == Frame(ED, OK)

EM_OK == Frame(EM, OK)

ET_OK == Frame(ET, OK)

Ez_OK == Frame(Ez, OK)

CP_300 == Frame(CP, << "3", "0", "0" >>)

CP_000 == Frame(CP, << "0", "0", "0" >>)

WB_6 == Frame(<< "W", "B" >>, << "6" >>)

W6_OK == Frame(W6, OK)

CC_ == Frame(<< "C", "C" >>, << >>)

AT_ == Frame(<< "A", "T" >>, << >>)

(***************************************************************************)
(* The ISuperBike object                                                   *)
(***************************************************************************)
\* The state after ISuperBike.__init__.  socket is "none" (None), "fresh" (a
\* socket object whose connect failed), "open" (connected) or "closed".
\* sync is an attribute that exists only after the first decoded W6 frame.
NewBike ==
  [ socket |-> "none", connected |-> FALSE, initialized |-> FALSE,
    running |-> FALSE,
    distance |-> 0, rpm |-> 0, heart_rate |-> 0, level |-> 0,
    calories |-> 0, watts |-> 0, speed |-> 0,
    password |-> None, resistance_min |-> 0, resistance_max |-> 0,
    wheel_diameter |-> 2100, mac_address |-> << >>,
    unit_type |-> << "M" >>, memory_data |-> None,
    last_update |-> None, messages_sent |-> 0, messages_received |-> 0,
    old_distance |-> 0, hi_dist_value |-> 0, sync |-> None ]

(***************************************************************************)
(* Telemetry decoder: ISuperBike.parse_sport_data                          *)
(***************************************************************************)
\* The comma-separated fields of a W6 frame: parts[1].split(","), or None
\* when the frame has no underscore (the decoder then returns False).
SportFields(command) ==
  LET parts == Split(Replace(Replace(command, << LT >>, << >>), << GT >>, << >>),
                     << "_" >>)
  IN IF Len(parts) < 2 THEN None ELSE Some(Split(parts[2], << "," >>))

\* A wrap test that also fires on an equal counter: the variant against which
\* the strictness of line 291 is checked.
WrapDetectedOrEqual(raw_dist, old_distance) == raw_dist <= old_distance

\* DISTANCE (position 1): the wrap test of line 291.
WrapDetected(raw_dist, old_distance) == raw_dist < old_distance

\* A distance decoder that forgets line 296 (old_distance = raw_dist): the
\* variant against which the bookkeeping of the previous counter is checked.
DecodeDistanceStalePrevious(b, dp) ==
  IF Len(dp) >= 2 /\ IntOK(Ljust(dp[2], 3))
  THEN LET raw_dist == IntVal(Ljust(dp[2], 3))
           hi == IF raw_dist < b.old_distance
                 THEN b.hi_dist_value + 1 ELSE b.hi_dist_value
           full_dist == hi * 1000 + raw_dist
       IN [b EXCEPT !.hi_dist_value = hi,
                    !.distance = b.wheel_diameter * full_dist]
  ELSE b

\* DISTANCE (position 1): lines 286-304.  A field int() rejects changes nothing.
DecodeDistance(b, dp) ==
  IF Len(dp) >= 2 /\ IntOK(Ljust(dp[2], 3))
  THEN LET raw_dist == IntVal(Ljust(dp[2], 3))
           hi == IF WrapDetected(raw_dist, b.old_distance)
                 THEN b.hi_dist_value + 1 ELSE b.hi_dist_value
           full_dist == hi * 1000 + raw_dist
       IN [b EXCEPT !.hi_dist_value = hi,
                    !.old_distance = raw_dist,
                    !.distance = b.wheel_diameter * full_dist]
  ELSE b

\* A field decoder that fills on the left (zfill for ljust), which keeps the
\* value of a short field: the variant against which the side of the padding
\* is checked.
PaddedFieldLeft(dp, pos, width, previous) ==
  IF Len(dp) >= pos + 1 /\ IntOK(Ljust(dp[pos + 1], width))
  THEN IntVal(dp[pos + 1])
  ELSE previous

\* One padded-integer field at 0-based position pos, padded to width:
\* the value to store, or the previous value when int() raises.
PaddedField(dp, pos, width, previous) ==
  IF Len(dp) >= pos + 1 /\ IntOK(Ljust(dp[pos + 1], width))
  THEN IntVal(Ljust(dp[pos + 1], width))
  ELSE previous

\* The whole decoder.  The result is the new object and the return value.
parse_sport_data(b, command) ==
  LET f == SportFields(command)
  IN IF IsNone(f) THEN [bike |-> b, ret |-> FALSE]
     ELSE LET dp == f[1]
              b1 == [b EXCEPT !.sync =
                        Some(IF IsDigit(dp[1]) THEN IntVal(dp[1]) ELSE 0)]
              b2 == DecodeDistance(b1, dp)
              rpm == PaddedField(dp, 2, 3, b.rpm)
              b3 == [b2 EXCEPT !.rpm = rpm,
                               !.heart_rate = PaddedField(dp, 3, 3, b.heart_rate),
                               !.level = PaddedField(dp, 4, 2, b.level),
                               !.calories = PaddedField(dp, 5, 6, b.calories),
                               !.watts = PaddedField(dp, 6, 3, b.watts),
                               !.speed = rpm * 55]
          IN [bike |-> b3, ret |-> TRUE]

(***************************************************************************)
(* Command parser: ISuperBike.parse_command                                *)
(***************************************************************************)
\* Lines 131-146: the frame without < and >, (for EA) without "\r\n", split at
\* the underscores; cmd is the first part, data the rest joined again, or None
\* when there is no underscore.
CleanCmd(command) ==
  LET c == Replace(Replace(command, << LT >>, << >>), << GT >>, << >>)
  IN IF StartsWith(c, EA) THEN Replace(c, << "\r", "\n" >>, << >>) ELSE c

CmdOf(command) == Split(CleanCmd(command), << "_" >>)[1]

DataOf(command) ==
  LET parts == Split(CleanCmd(command), << "_" >>)
  IN IF Len(parts) = 1 THEN None ELSE Some(Join(Tail(parts), << "_" >>))

\* "data" as a condition: neither None nor the empty string.
Truthy(data) == ~IsNone(data) /\ Len(data[1]) > 0

\* data == "text"
DataIs(data, text) == ~IsNone(data) /\ data[1] = text

\* Lines 182-185: the first twelve characters in pairs, colon-separated, upper case.
FormatMac(d) ==
  Upper(Join([k \in 1..6 |-> SubSeq(d, 2 * k - 1, 2 * k)], << ":" >>))

\* Lines 168-174, the ER branch once "-" in data holds: int() of the first two
\* parts; resistance_min is stored before the second int() is tried.
ParseResistance(b, d) ==
  LET parts == Split(d, << "-" >>)
  IN IF ~IntOK(parts[1]) THEN [bike |-> b, res |-> "raise"]
     ELSE LET b1 == [b EXCEPT !.resistance_min = IntVal(parts[1])]
          IN IF ~IntOK(parts[2]) THEN [bike |-> b1, res |-> "raise"]
             ELSE [bike |-> [b1 EXCEPT !.resistance_max = IntVal(parts[2])],
                   res |-> "resistance"]

\* The guard of line 168, '"-" in data': "raise" when data is None (TypeError).
ErGuard(data) ==
  IF IsNone(data) THEN "raise"
  ELSE IF Contains(data[1], << "-" >>) THEN "yes" ELSE "no"

\* The guard of line 239, '"1E" in data or "OK" in data'.
EzGuard(data) ==
  IF IsNone(data) THEN "raise"
  ELSE IF Contains(data[1], << "1", "E" >>) \/ Contains(data[1], OK)
       THEN "yes" ELSE "no"

\* The if/elif chain of lines 149-264, in its order.  res is the returned tag,
\* "None" for an empty command, or "raise" when an exception leaves the method.
parse_command(b, command) ==
  LET cmd == CmdOf(command)
      data == DataOf(command)
      same == [bike |-> b, res |-> "unknown"]
  IN IF Len(command) = 0 THEN [bike |-> b, res |-> "None"]
     ELSE IF cmd = EQ /\ DataIs(data, OK) THEN [same EXCEPT !.res = "init_ack"]
     ELSE IF cmd = EP /\ DataIs(data, SUPERWIGH)
          THEN [bike |-> [b EXCEPT !.password = Some(SUPERWIGH)], res |-> "password"]
     ELSE IF cmd = EP /\ DataIs(data, OK) THEN [same EXCEPT !.res = "password_ack"]
     ELSE IF cmd = ET /\ Truthy(data)
          THEN [same EXCEPT !.res = IF data[1] = OK THEN "et_ack" ELSE "et_data"]
     ELSE IF cmd = ER /\ ErGuard(data) = "raise" THEN [same EXCEPT !.res = "raise"]
     ELSE IF cmd = ER /\ ErGuard(data) = "yes" THEN ParseResistance(b, data[1])
     ELSE IF cmd = ER /\ DataIs(data, OK) THEN [same EXCEPT !.res = "resistance_ack"]
     ELSE IF cmd = EA /\ Truthy(data)
          THEN IF Len(data[1]) >= 12 /\ \A k \in 1..Len(data[1]) : data[1][k] \in HexChars
               THEN [bike |-> [b EXCEPT !.mac_address = FormatMac(data[1])],
                     res |-> "mac"]
               ELSE [same EXCEPT !.res = "mac"]
     ELSE IF cmd = EA /\ DataIs(data, OK) THEN [same EXCEPT !.res = "ea_ok"]
     ELSE IF cmd = ED /\ Truthy(data)
          THEN IF IsDigit(data[1])
               THEN [bike |-> [b EXCEPT !.wheel_diameter = IntVal(data[1])],
                     res |-> "diameter"]
               ELSE [same EXCEPT !.res = "ed_data"]
     ELSE IF cmd = ED /\ DataIs(data, OK) THEN [same EXCEPT !.res = "ed_ok"]
     ELSE IF cmd = EM /\ Truthy(data)
          THEN [bike |-> [b EXCEPT !.memory_data =
                            Some(IF IsDigit(data[1])
                                 THEN << "int", IntVal(data[1]) >>
                                 ELSE << "str", data[1] >>)],
                res |-> "memory"]
     ELSE IF cmd = EM /\ DataIs(data, OK) THEN [same EXCEPT !.res = "memory_ack"]
     ELSE IF cmd = EU /\ Truthy(data)
          THEN [bike |-> [b EXCEPT !.unit_type = data[1]], res |-> "unit"]
     ELSE IF cmd = EU /\ DataIs(data, OK) THEN [same EXCEPT !.res = "unit_ack"]
     ELSE IF cmd = EV /\ Truthy(data) THEN [same EXCEPT !.res = "ev_data"]
     ELSE IF cmd = EV /\ DataIs(data, OK) THEN [same EXCEPT !.res = "ev_ack"]
     ELSE IF cmd = Ez /\ EzGuard(data) = "raise" THEN [same EXCEPT !.res = "raise"]
     ELSE IF cmd = Ez /\ EzGuard(data) = "yes" THEN [same EXCEPT !.res = "init_complete"]
     ELSE IF cmd = Ez /\ DataIs(data, OK) THEN [same EXCEPT !.res = "init_complete_ack"]
     ELSE IF StartsWith(cmd, W6)
          THEN [bike |-> parse_sport_data(b, command).bike, res |-> "sport_data"]
     ELSE IF cmd = W6 /\ DataIs(data, OK) THEN [same EXCEPT !.res = "sport_ack"]
     ELSE IF cmd = CP /\ DataIs(data, OK) THEN [same EXCEPT !.res = "cp_ack"]
     ELSE IF cmd = CP /\ DataIs(data, << "3", "0", "0" >>)
          THEN [same EXCEPT !.res = "cp_pause"]
     ELSE IF cmd = CP /\ DataIs(data, << "0", "0", "0" >>)
          THEN [same EXCEPT !.res = "cp_start"]
     ELSE same

(***************************************************************************)
(* Transport: send and receive                                             *)
(***************************************************************************)
\* One step of the protocol thread works on the object and records what it
\* did.  trace is the list of events of the step, each
\*   [e |-> "send",  frame |-> the frame passed to send,
\*                   res |-> "ok" (written), "fail" (the write raised) or
\*                           "skip" (not connected: nothing written)]
\*   [e |-> "parse", frame |-> the frame passed to parse_command,
\*                   res |-> the returned tag, or "raise"]
\*   [e |-> "recv",  frame |-> the bytes read, res |-> the outcome of recv]
\*   [e |-> "tcp" or "udp", frame |-> << >>, res |-> "ok" or "fail"]
\* n counts the writes tried on the socket in this step, and fail is the
\* environment's choice of the write that raises (0: none does).
IO(b, fail) == [bike |-> b, trace |-> << >>, n |-> 0, fail |-> fail]

Event(st, e, frame, res) ==
  [st EXCEPT !.trace = Append(st.trace, [e |-> e, frame |-> frame, res |-> res])]

\* Line 417: the guard of send and of receive.
NotConnected(b) == ~b.connected \/ b.socket = "none"

\* A send that reopens a connection that is down before it writes: the
\* variant against which the absence of a reconnect inside send is checked.
sendWithReconnect(st, command) ==
  IF st.bike.socket = "none"
  THEN [st EXCEPT !.trace = Append(st.trace,
                     [e |-> "send", frame |-> command, res |-> "skip"])]
  ELSE IF st.n + 1 # st.fail
       THEN [st EXCEPT !.bike.socket = "open",
                       !.bike.connected = TRUE,
                       !.bike.messages_sent = st.bike.messages_sent + 1,
                       !.n = st.n + 1,
                       !.trace = Append(st.trace,
                          [e |-> "send", frame |-> command, res |-> "ok"])]
       ELSE [st EXCEPT !.bike.connected = FALSE,
                       !.n = st.n + 1,
                       !.trace = Append(st.trace,
                          [e |-> "send", frame |-> command, res |-> "fail"])]

\* A send that counts the message before the write is known to have succeeded:
\* the variant against which the place of line 421 is checked.
sendCountingFailures(st, command) ==
  IF ~st.bike.connected \/ st.bike.socket = "none"
  THEN [st EXCEPT !.trace = Append(st.trace,
                     [e |-> "send", frame |-> command, res |-> "skip"])]
  ELSE IF st.bike.socket = "open" /\ st.n + 1 # st.fail
       THEN [st EXCEPT !.bike.messages_sent = st.bike.messages_sent + 1,
                       !.n = st.n + 1,
                       !.trace = Append(st.trace,
                          [e |-> "send", frame |-> command, res |-> "ok"])]
       ELSE [st EXCEPT !.bike.messages_sent = st.bike.messages_sent + 1,
                       !.bike.connected = FALSE,
                       !.n = st.n + 1,
                       !.trace = Append(st.trace,
                          [e |-> "send", frame |-> command, res |-> "fail"])]

\* ISuperBike.send, lines 415-427.  A write on a socket that is not open raises.
send(st, command) ==
  IF NotConnected(st.bike) THEN Event(st, "send", command, "skip")
  ELSE IF st.bike.socket = "open" /\ st.n + 1 # st.fail
       THEN Event([st EXCEPT !.bike.messages_sent = st.bike.messages_sent + 1,
                             !.n = st.n + 1],
                  "send", command, "ok")
       ELSE Event([st EXCEPT !.bike.connected = FALSE, !.n = st.n + 1],
                  "send", command, "fail")

\* The return value of the send that a step did last.
SendReturned(st) == st.trace[Len(st.trace)].res = "ok"

\* bytes.decode('ascii', errors='ignore'): bytes above 127, written here as
\* tokens of more than one character, are dropped.
NonAscii == "0x80"

IsAscii(c) == c # NonAscii

Decode(data) == SelectSeq(data, IsAscii)

\* A codec that does not put the closing delimiter back (line 441 without
\* cmd + ">"): the variant against which the returned frame text is checked.
CommandsUnterminated(decoded) ==
  LET parts == Split(Strip(Replace(decoded, << GT >>, << "\n", LT >>)),
                     << "\n", LT >>)
      NotEmpty(cmd) == Len(cmd) > 0
  IN SelectSeq(parts, NotEmpty)

\* Lines 439-441: the frame codec.
Commands(decoded) ==
  LET parts == Split(Strip(Replace(decoded, << GT >>, << "\n", LT >>)),
                     << "\n", LT >>)
      NotEmpty(cmd) == Len(cmd) > 0
      kept == SelectSeq(parts, NotEmpty)
  IN [k \in 1..Len(kept) |-> Append(kept[k], GT)]

\* A receive that reports a read error without marking the connection as
\* down (lines 448-451 without connected = False): the variant against which
\* the handling of read errors is checked.
receiveKeepingConnected(b, outcome, data) ==
  IF ~b.connected \/ b.socket = "none" THEN [bike |-> b, ret |-> None]
  ELSE IF b.socket # "open" \/ outcome = "error"
       THEN [bike |-> b, ret |-> Some(<< >>)]
  ELSE IF outcome = "timeout" THEN [bike |-> b, ret |-> Some(<< >>)]
  ELSE IF outcome = "data" /\ Len(data) > 0
       THEN LET commands == Commands(Decode(data))
            IN [bike |-> IF Len(commands) > 0
                         THEN [b EXCEPT !.messages_received = b.messages_received + 1]
                         ELSE b,
                ret |-> Some(commands)]
  ELSE [bike |-> b, ret |-> None]

\* ISuperBike.receive, lines 429-452.  outcome is what socket.recv does:
\* "data" (bytes arrived), "timeout", "error" (any other exception) or
\* "closed" (recv returns no bytes: the peer has closed the connection).
\* ret is None or Some(list of frames).
receive(b, outcome, data) ==
  IF NotConnected(b) THEN [bike |-> b, ret |-> None]
  ELSE IF b.socket # "open" \/ outcome = "error"
       THEN [bike |-> [b EXCEPT !.connected = FALSE], ret |-> Some(<< >>)]
  ELSE IF outcome = "timeout" THEN [bike |-> b, ret |-> Some(<< >>)]
  ELSE IF outcome = "data" /\ Len(data) > 0
       THEN LET commands == Commands(Decode(data))
            IN [bike |-> IF Len(commands) > 0
                         THEN [b EXCEPT !.messages_received = b.messages_received + 1]
                         ELSE b,
                ret |-> Some(commands)]
  ELSE [bike |-> b, ret |-> None]

\* "not responses" / "if responses": None and the empty list are both false.
Falsy(r) == IsNone(r) \/ Len(r[1]) = 0

(***************************************************************************)
(* Inputs: what the device and the caller may supply                       *)
(***************************************************************************)
\* A W6 frame with the given comma-separated fields.
W6Frame(fields) == Frame(W6, Join(fields, << "," >>))

T998 == << "9", "9", "8" >>

T000 == << "0", "0", "0" >>

T001 == << "0", "0", "1" >>

\* Telemetry frames: a full one, a wrapping one, one with the distance only,
\* and one whose distance is not a number and whose rpm is short.
TelemetryFrames ==
  { W6Frame(<< << "0" >>, T998, << "0", "6", "0" >>, << "0", "7", "2" >>,
               << "0", "3" >>, << "0", "0", "0", "5", "0", "0" >>,
               << "1", "0", "0" >>, << "0", "0" >> >>),
    W6Frame(<< << "1" >>, T000, << "1", "0", "0" >> >>),
    W6Frame(<< << "2" >>, T001 >>),
    W6Frame(<< << "x" >>, << "a", "b" >>, << "9" >> >>) }

\* Handshake frames in the form the protocol describes.
HandshakeFrames ==
  { Frame(EQ, OK), Frame(EP, SUPERWIGH), Frame(ER, << "1", "-", "2", "0" >>),
    Frame(EA, << "0", "0", "1", "e", "c", "0", "a", "b", "1", "2", "f", "f" >>),
    Frame(ED, << "2", "2", "0", "0" >>), Frame(EM, << "5" >>),
    Frame(ET, << "U", "p" >>), Frame(Ez, OK) }

\* Frames outside the command table, or of a known code without usable data.
OddFrames ==
  { Bare(ER), Bare(Ez), Frame(ER, << "a", "-", "b" >>),
    Frame(ER, << "3", "-", "x" >>), Frame(<< "X", "X" >>, << "1" >>),
    Bare(W6), Frame(W6, OK), Frame(EP, << "S", "U" >>) }

DeviceFrames == HandshakeFrames \cup TelemetryFrames \cup OddFrames

RECURSIVE Concat(_)
Concat(fs) == IF Len(fs) = 0 THEN << >> ELSE fs[1] \o Concat(Tail(fs))

\* The whole handshake as the protocol describes it, in one read.
WholeHandshake ==
  << Frame(EQ, OK), Frame(EP, SUPERWIGH), Frame(ER, << "1", "-", "2", "0" >>),
     Frame(EA, << "0", "0", "1", "e", "c", "0", "a", "b", "1", "2", "f", "f" >>),
     Frame(ED, << "2", "2", "0", "0" >>), Frame(EM, << "5" >>), Frame(Ez, OK) >>

\* What one recv may return during the handshake: one frame, or several
\* frames in one read.
HandshakeBatches ==
  { << f >> : f \in HandshakeFrames \cup {Bare(ER), Frame(<< "X", "X" >>, << "1" >>)} }
    \cup { WholeHandshake,
           << Frame(EP, SUPERWIGH), Frame(ER, << "1", "-", "2", "0" >>) >>,
           << Frame(Ez, OK), Bare(ER) >>,
           << Frame(Ez, OK), Frame(EM, << "5" >>) >>,
           << Frame(EU, << "K", "m" >>) >>,
           << Frame(EV, << "1" >>), Frame(EM, << "5" >>) >> }

HandshakeReads == { Concat(fs) : fs \in HandshakeBatches }

\* The few frames and reads of the specification of the whole interface.
FewFrames ==
  { Frame(EQ, OK), Frame(ER, << "1", "-", "2", "0" >>), Bare(ER),
    W6Frame(<< << "2" >>, T001 >>) }

FewTelemetry ==
  { W6Frame(<< << "0" >>, T998 >>), W6Frame(<< << "1" >>, T000, << "1", "0", "0" >> >>) }

FewReads ==
  { Frame(Ez, OK),
    Concat(<< Frame(ED, << "2", "2", "0", "0" >>), W6Frame(<< << "0" >>, T998 >>),
              W6Frame(<< << "1" >>, T000, << "1", "0", "0" >> >>) >>) }

RecvOutcomes == {"data", "timeout", "error", "closed"}

(***************************************************************************)
(* SportProgram (sport_program_parser.py)                                  *)
(*                                                                         *)
(* Times are whole seconds.  Python's float quotients are kept as exact    *)
(* fractions in lowest terms, so that 3600 / 6 and 600 are the same value. *)
(***************************************************************************)
RECURSIVE Gcd(_, _)
Gcd(a, b) == IF b = 0 THEN a ELSE Gcd(b, a % b)

\* The fraction n / d (n >= 0, d > 0) in lowest terms.
Rat(n, d) == [num |-> n \div Gcd(n, d), den |-> d \div Gcd(n, d)]

Whole(n) == Rat(n, 1)

\* SportProgram.__init__, lines 15-24, and what parse_file stores in the new
\* object (lines 141-151): the breakpoints, sorted by segment number, and the
\* number of segments.
NewProgram(segments, total_segments) ==
  [segments |-> segments,
   total_segments |-> total_segments,
   duration_minutes |-> 0,
   segment_duration |-> Whole(0),
   start_time |-> None,
   current_segment |-> 0,
   completed |-> FALSE]

\* calculate_segment_duration, lines 26-32.
calculate_segment_duration(p) ==
  [p EXCEPT !.segment_duration =
     IF p.total_segments > 0
     THEN Rat(p.duration_minutes * 60, p.total_segments)
     ELSE Whole(0)]

\* Lines 47-52 and 79-86: the loop over the breakpoints, which stops at the
\* first breakpoint beyond the segment.  The result is the current level and
\* the level of the breakpoint that stopped the loop, each None or Some.
RECURSIVE LevelLoop(_, _, _)
LevelLoop(segments, segment_num, current_level) ==
  IF Len(segments) = 0 THEN [current |-> current_level, next |-> None]
  ELSE IF segment_num >= segments[1][1]
       THEN LevelLoop(Tail(segments), segment_num, Some(segments[1][2]))
       ELSE [current |-> current_level, next |-> Some(segments[1][2])]

\* Line 40: int(elapsed / segment_duration) + 1 for a segment_duration that
\* is not zero.
SegmentNum(elapsed, segment_duration) ==
  (elapsed * segment_duration.den) \div segment_duration.num + 1

\* A get_current_level that numbers the segments from 0 (line 40 without its
\* + 1): the variant against which the segment arithmetic is checked.
get_current_level_zero_based(p, t) ==
  IF IsNone(p.start_time) \/ p.completed
  THEN [prog |-> p, ret |-> << None >>, raised |-> FALSE]
  ELSE IF p.segment_duration.num = 0
  THEN [prog |-> p, ret |-> << >>, raised |-> TRUE]
  ELSE LET n == ((t - p.start_time[1]) * p.segment_duration.den)
                  \div p.segment_duration.num
           over == n > p.total_segments
           segment_num == IF over THEN p.total_segments ELSE n
       IN [prog |-> [p EXCEPT !.completed = over,
                              !.current_segment = segment_num],
           ret |-> << LevelLoop(p.segments, segment_num, None).current >>,
           raised |-> FALSE]

\* A get_current_level that ends the program when the last segment begins
\* (>= for the > of line 42): the variant against which the moment of
\* completion is checked.
get_current_level_early_end(p, t) ==
  IF IsNone(p.start_time) \/ p.completed
  THEN [prog |-> p, ret |-> << None >>, raised |-> FALSE]
  ELSE IF p.segment_duration.num = 0
  THEN [prog |-> p, ret |-> << >>, raised |-> TRUE]
  ELSE LET n == SegmentNum(t - p.start_time[1], p.segment_duration)
           over == n >= p.total_segments
           segment_num == IF over THEN p.total_segments ELSE n
       IN [prog |-> [p EXCEPT !.completed = over,
                              !.current_segment = segment_num],
           ret |-> << LevelLoop(p.segments, segment_num, None).current >>,
           raised |-> FALSE]

\* A get_current_level that forgets line 44 and keeps the segment number it
\* computed past the last segment: the variant against which the bounds of
\* current_segment are checked.
get_current_level_unclamped(p, t) ==
  IF IsNone(p.start_time) \/ p.completed
  THEN [prog |-> p, ret |-> << None >>, raised |-> FALSE]
  ELSE IF p.segment_duration.num = 0
  THEN [prog |-> p, ret |-> << >>, raised |-> TRUE]
  ELSE LET n == SegmentNum(t - p.start_time[1], p.segment_duration)
           over == n > p.total_segments
       IN [prog |-> [p EXCEPT !.completed = p.completed \/ over,
                              !.current_segment = n],
           ret |-> << LevelLoop(p.segments, n, None).current >>,
           raised |-> FALSE]

\* get_current_level at time t, lines 34-55.  The division of line 40 raises
\* ZeroDivisionError when segment_duration is zero.
get_current_level(p, t) ==
  IF IsNone(p.start_time) \/ p.completed
  THEN [prog |-> p, ret |-> << None >>, raised |-> FALSE]
  ELSE IF p.segment_duration.num = 0
  THEN [prog |-> p, ret |-> << >>, raised |-> TRUE]
  ELSE LET n == SegmentNum(t - p.start_time[1], p.segment_duration)
           over == n > p.total_segments
           segment_num == IF over THEN p.total_segments ELSE n
       IN [prog |-> [p EXCEPT !.completed = p.completed \/ over,
                              !.current_segment = segment_num],
           ret |-> << LevelLoop(p.segments, segment_num, None).current >>,
           raised |-> FALSE]

\* get_progress at time t, lines 57-71: progress, remaining, current_segment.
get_progress(p, t) ==
  IF IsNone(p.start_time) \/ p.segment_duration.num = 0
  THEN << Whole(0), Whole(0), 0 >>
  ELSE LET elapsed == t - p.start_time[1]
           total_duration == p.duration_minutes * 60
       IN IF elapsed >= total_duration
          THEN << Whole(100), Whole(0), p.current_segment >>
          ELSE << Rat(elapsed * 100, total_duration),
                  Whole(total_duration - elapsed), p.current_segment >>

\* get_current_segment_info at time t, lines 73-95: current level, seconds
\* left in the segment, current_segment.
get_current_segment_info(p, t) ==
  IF IsNone(p.start_time) \/ p.current_segment = 0
  THEN << None, Whole(0), 0 >>
  ELSE LET elapsed == t - p.start_time[1]
           sd == p.segment_duration
           left == p.current_segment * sd.num - elapsed * sd.den
       IN << LevelLoop(p.segments, p.current_segment, None).current,
             IF left > 0 THEN Rat(left, sd.den) ELSE Whole(0),
             p.current_segment >>

\* A start that stamps the time and keeps the old progress (lines 100-101
\* left out): the variant against which the reset of start is checked.
start_without_reset(p, t) == [p EXCEPT !.start_time = Some(t)]

\* start at time t, lines 97-101.
start(p, t) ==
  [p EXCEPT !.start_time = Some(t), !.completed = FALSE, !.current_segment = 0]

(***************************************************************************)
(* State                                                                   *)
(***************************************************************************)
VARIABLES
  bike,        \* the ISuperBike object
  pc,          \* where the protocol thread is: "idle", or inside initialize
               \* ("init_recv", "init_handle", "init_exit") or update_data
               \* ("upd_handle")
  i,           \* initialize: the loop counter of line 466
  init_done,   \* initialize: the local of line 465
  responses,   \* the frames of the current read not yet handled
  ret,         \* what the last finished call returned: "True", "False",
               \* "None", "raise" (an exception left it), "-" while running
  rx,          \* what the last receive returned: None or Some(frames)
  op,          \* the step taken last
  trace,       \* the events of the step taken last
  calls,       \* the number of calls made on the object
  rawLog,      \* the raw distance counters decoded since the last clear
  devFrames,   \* the frames the device has written to the connection
  stream,      \* the bytes written by the device and not yet read
  delivered,   \* the frames receive has returned so far
  prog,        \* the SportProgram object
  now,         \* the clock, datetime.now(), in seconds
  presult,     \* what the last SportProgram call returned, as a tuple
  dash,        \* the Dashboard fields that steer the program: paused,
               \* program_completed, last_level_change
  lock,        \* who holds bike.lock: "free", "protocol" or "reader"
  reader,      \* a second thread inside get_status: snap, the values it has
               \* read so far, and seen, the telemetry records the object
               \* has held between operations meanwhile
  status,      \* the dictionary the last get_status returned, None or Some
  sentAt       \* the instants at which update_program_level sent a level

vars ==
  << bike, pc, i, init_done, responses, ret, rx, op, trace, calls, rawLog,
     devFrames, stream, delivered, prog, now, presult, dash, lock, reader,
     status, sentAt >>

\* The sport program and its clock.
sched == << prog, now, presult >>

\* A program object as created, before a file has been parsed into it.
NoProgram == prog = NewProgram(<< >>, 0) /\ now = 0 /\ presult = << >>

\* The user interface side: the dashboard, the lock and its other thread.
ui == << dash, lock, reader, status, sentAt >>

\* The lock, its other thread and what is recorded about the dashboard.
threads == << lock, reader, status, sentAt >>

\* Dashboard.__init__, lines 23-31, an unlocked lock (isuper_bike.py line 32)
\* and no get_status under way.
NoUi ==
  /\ dash = [paused |-> FALSE, active_program |-> FALSE,
             program_completed |-> FALSE, last_level_change |-> 0]
  /\ lock = "free"
  /\ reader = [snap |-> << >>, seen |-> {}]
  /\ status = None
  /\ sentAt = << >>

\* The loop variables of initialize and update_data.
locals == << i, init_done, responses >>

\* The device side of the connection as the codec specification sees it.
wire == << rawLog, devFrames, stream, delivered >>

\* The polling ceiling of initialize, line 466.
PollCeiling == 10

\* The most calls made on one object.
MaxCalls == 3

\* The most TCP attempts asked of connect.
MaxRetries == 2

\* The most reads that bring frames, counted by messages_received.
MaxReceived == 2

Init ==
  /\ bike = NewBike
  /\ pc = "idle"
  /\ i = 0
  /\ init_done = FALSE
  /\ responses = << >>
  /\ ret = "-"
  /\ rx = None
  /\ op = "new"
  /\ trace = << >>
  /\ calls = 0
  /\ rawLog = << >>
  /\ devFrames = << >>
  /\ stream = << >>
  /\ delivered = << >>
  /\ NoProgram
  /\ NoUi

\* A call can start when the thread is idle.
CanCall == pc = "idle" /\ calls < MaxCalls

\* A recv brings data only while the cap on messages_received allows.
MayRead(outcome) == outcome = "data" => bike.messages_received < MaxReceived

\* The loop variables of a call that is over do not exist any more.
NoLocals == i' = 0 /\ init_done' = FALSE /\ responses' = << >>

\* A call that starts and ends in one step.
Done(st, name, result) ==
  /\ bike' = st.bike
  /\ trace' = st.trace
  /\ op' = name
  /\ ret' = result
  /\ calls' = calls + 1
  /\ pc' = "idle"

Bool(x) == IF x THEN "True" ELSE "False"

(***************************************************************************)
(* Calls that start and end in one step                                    *)
(*                                                                         *)
(* A value computed once and used several times is bound by a quantifier   *)
(* over a one-element set, which TLC evaluates once.                       *)
(***************************************************************************)
\* The raw distance counter the decoder takes from a frame, or None when it
\* decodes none (line 288 raises, or there is no distance field).
DecodedRaw(command) ==
  LET f == SportFields(command)
  IN IF ~IsNone(f) /\ Len(f[1]) >= 2 /\ IntOK(Ljust(f[1][2], 3))
     THEN Some(IntVal(Ljust(f[1][2], 3))) ELSE None

\* The log of decoded raw counters after parse_sport_data has seen a frame.
Logged(log, command) == log \o DecodedRaw(command)

\* A connect that gives up when the wake datagram cannot be sent (lines
\* 384-399 without their try/except): the variant against which the
\* best-effort wake is checked.
RECURSIVE ConnectLoopWakeFatal(_, _, _, _, _)
ConnectLoopWakeFatal(st, attempt, max_retries, fails, udpOk) ==
  IF attempt >= max_retries THEN [st |-> st, ret |-> FALSE]
  ELSE LET s1 == [st EXCEPT !.bike.socket = "fresh"]
       IN IF attempt >= fails
          THEN [st |-> [s1 EXCEPT !.bike.socket = "open",
                                  !.bike.connected = TRUE,
                                  !.trace = Append(s1.trace,
                                     [e |-> "tcp", frame |-> << >>, res |-> "ok"])],
                ret |-> TRUE]
          ELSE LET s2 == [s1 EXCEPT !.trace = Append(s1.trace,
                                     [e |-> "tcp", frame |-> << >>, res |-> "fail"])]
               IN IF attempt < max_retries - 1
                  THEN IF udpOk
                       THEN ConnectLoopWakeFatal(
                              [s2 EXCEPT !.trace = Append(s2.trace,
                                 [e |-> "udp", frame |-> SUPERWIGH, res |-> "ok"])],
                              attempt + 1, max_retries, fails, udpOk)
                       ELSE [st |-> [s2 EXCEPT !.trace = Append(s2.trace,
                                 [e |-> "udp", frame |-> SUPERWIGH, res |-> "fail"])],
                             ret |-> FALSE]
                  ELSE ConnectLoopWakeFatal(s2, attempt + 1, max_retries, fails, udpOk)

\* ISuperBike.connect, lines 358-401.  The environment decides how many TCP
\* attempts fail before one succeeds (fails) and whether the wake datagram
\* can be sent (udpOk).
RECURSIVE ConnectLoop(_, _, _, _, _)
ConnectLoop(st, attempt, max_retries, fails, udpOk) ==
  IF attempt >= max_retries THEN [st |-> st, ret |-> FALSE]
  ELSE LET s1 == [st EXCEPT !.bike.socket = "fresh"]
       IN IF attempt >= fails
          THEN [st |-> Event([s1 EXCEPT !.bike.socket = "open",
                                        !.bike.connected = TRUE],
                             "tcp", << >>, "ok"),
                ret |-> TRUE]
          ELSE LET s2 == Event(s1, "tcp", << >>, "fail")
                   s3 == IF attempt < max_retries - 1
                         THEN Event(s2, "udp", SUPERWIGH,
                                    IF udpOk THEN "ok" ELSE "fail")
                         ELSE s2
               IN ConnectLoop(s3, attempt + 1, max_retries, fails, udpOk)

Connect(max_retries, fails, udpOk) ==
  /\ CanCall
  /\ \E r \in {ConnectLoop(IO(bike, 0), 0, max_retries, fails, udpOk)} :
       Done(r.st, "connect", Bool(r.ret))
  /\ UNCHANGED << locals, rx, wire >>

\* A disconnect that closes the socket before it sends the terminate frame
\* (lines 408 and 409 exchanged): the variant against which the order of the
\* two is checked.
disconnectClosingFirst(st) ==
  LET s1 == [st EXCEPT !.bike.running = FALSE]
      s2 == IF s1.bike.socket # "none"
            THEN send([s1 EXCEPT !.bike.socket = "closed"], AT_)
            ELSE s1
  IN [s2 EXCEPT !.bike.connected = FALSE]

\* ISuperBike.disconnect, lines 403-413.
disconnect(st) ==
  LET s1 == [st EXCEPT !.bike.running = FALSE]
      s2 == IF s1.bike.socket # "none"
            THEN [send(s1, AT_) EXCEPT !.bike.socket = "closed"]
            ELSE s1
  IN [s2 EXCEPT !.bike.connected = FALSE]

Disconnect(fail) ==
  /\ CanCall
  /\ \E st \in {disconnect(IO(bike, fail))} : Done(st, "disconnect", "None")
  /\ UNCHANGED << locals, rx, wire >>

\* A direct call of send.
Send(command, fail) ==
  /\ CanCall
  /\ \E st \in {send(IO(bike, fail), command)} :
       Done(st, "send", Bool(SendReturned(st)))
  /\ UNCHANGED << locals, rx, wire >>

\* A direct call of receive.
Receive(outcome, data) ==
  /\ CanCall
  /\ MayRead(outcome)
  /\ \E r \in {receive(bike, outcome, data)} :
       /\ Done(Event(IO(r.bike, 0), "recv", data, outcome), "receive",
               IF IsNone(r.ret) THEN "None" ELSE "list")
       /\ rx' = r.ret
  /\ UNCHANGED << locals, wire >>

\* A direct call of parse_command.
ParseCommand(command) ==
  /\ CanCall
  /\ \E p \in {parse_command(bike, command)} :
       /\ Done(Event(IO(p.bike, 0), "parse", command, p.res), "parse_command",
               p.res)
       /\ rawLog' = IF p.res = "sport_data" THEN Logged(rawLog, command)
                    ELSE rawLog
  /\ UNCHANGED << locals, rx, devFrames, stream, delivered >>

\* A direct call of parse_sport_data.
ParseSportData(command) ==
  /\ CanCall
  /\ \E r \in {parse_sport_data(bike, command)} :
       Done(IO(r.bike, 0), "parse_sport_data", Bool(r.ret))
  /\ rawLog' = Logged(rawLog, command)
  /\ UNCHANGED << locals, rx, devFrames, stream, delivered >>

DigitChar(n) ==
  CASE n = 0 -> "0" [] n = 1 -> "1" [] n = 2 -> "2" [] n = 3 -> "3"
    [] n = 4 -> "4" [] n = 5 -> "5" [] n = 6 -> "6" [] n = 7 -> "7"
    [] n = 8 -> "8" [] n = 9 -> "9"

\* str(n) for n >= 0.
RECURSIVE DecStr(_)
DecStr(n) ==
  IF n < 10 THEN << DigitChar(n) >>
  ELSE Append(DecStr(n \div 10), DigitChar(n % 10))

\* f"{n:02d}": at least two characters, zero-filled after the sign.
Fmt02d(n) ==
  IF n < 0 THEN << "-" >> \o DecStr(0 - n)
  ELSE IF n < 10 THEN << "0" >> \o DecStr(n) ELSE DecStr(n)

\* A frame builder that forgets line 541 (level -= 1) and so writes the level
\* one-based: the variant against which the zero-based number is checked.
LevelFrameOneBased(level, min, max) ==
  LET l1 == IF level < min THEN min ELSE level
      l2 == IF l1 > max THEN max ELSE l1
      l4 == IF l2 < 0 THEN 0 ELSE l2
  IN Frame(<< "C", "R" >>, Fmt02d(l4))

\* Lines 537-544: the frame set_level builds.
LevelFrame(level, min, max) ==
  LET l1 == IF level < min THEN min ELSE level
      l2 == IF l1 > max THEN max ELSE l1
      l3 == l2 - 1
      l4 == IF l3 < 0 THEN 0 ELSE l3
  IN Frame(<< "C", "R" >>, Fmt02d(l4))

\* ISuperBike.set_level, lines 535-546.
set_level(st, level, min, max) == send(st, LevelFrame(level, min, max))

SetLevel(level, min, max, fail) ==
  /\ CanCall
  /\ \E st \in {set_level(IO(bike, fail), level, min, max)} :
       Done(st, "set_level", "None")
  /\ UNCHANGED << locals, rx, wire >>

\* A start_sport that resumes before it selects the mode: the variant against
\* which the order of the two frames is checked.
StartSportResumeFirst(fail) ==
  /\ CanCall
  /\ \E s1 \in {send(IO(bike, fail), CP_000)} : \E s2 \in {send(s1, WB_6)} :
       Done(s2, "start_sport", "None")
  /\ UNCHANGED << locals, rx, wire >>

\* ISuperBike.start_sport, lines 521-527.
StartSport(fail) ==
  /\ CanCall
  /\ \E s1 \in {send(IO(bike, fail), WB_6)} : \E s2 \in {send(s1, CP_000)} :
       Done(s2, "start_sport", "None")
  /\ UNCHANGED << locals, rx, wire >>

\* ISuperBike.pause_sport, lines 529-533.
PauseSport(fail) ==
  /\ CanCall
  /\ \E st \in {send(IO(bike, fail), CP_300)} : Done(st, "pause_sport", "None")
  /\ UNCHANGED << locals, rx, wire >>

\* A clear_data that forgets line 555 and keeps the previous raw counter: the
\* variant against which the reset of the odometer state is checked.
clear_data_keeping_previous(st) ==
  LET s1 == send(st, CC_)
  IN [s1 EXCEPT !.bike.distance = 0, !.bike.calories = 0,
                !.bike.hi_dist_value = 0]

\* A clear_data that zeroes the instantaneous readings as well: the variant
\* against which the decoder as their only writer is checked.
clear_data_all(st) ==
  LET s1 == send(st, CC_)
  IN [s1 EXCEPT !.bike.distance = 0, !.bike.calories = 0,
                !.bike.hi_dist_value = 0, !.bike.old_distance = 0,
                !.bike.rpm = 0, !.bike.heart_rate = 0, !.bike.level = 0,
                !.bike.watts = 0, !.bike.speed = 0]

\* ISuperBike.clear_data, lines 548-556.
clear_data(st) ==
  LET s1 == send(st, CC_)
  IN [s1 EXCEPT !.bike.distance = 0, !.bike.calories = 0,
                !.bike.hi_dist_value = 0, !.bike.old_distance = 0]

ClearData(fail) ==
  /\ CanCall
  /\ \E st \in {clear_data(IO(bike, fail))} : Done(st, "clear_data", "None")
  /\ rawLog' = << >>
  /\ UNCHANGED << locals, rx, devFrames, stream, delivered >>

(***************************************************************************)
(* initialize, lines 454-519, step by step                                 *)
(***************************************************************************)
\* An acknowledgement table with the answers to the diameter and the memory
\* frame exchanged: the variant against which the pairing is checked.
AckFramesExchanged(result) ==
  CASE result = "password" -> << EP_OK >>
    [] result = "resistance" -> << ER_OK >>
    [] result = "mac" -> << EA_OK >>
    [] result = "diameter" -> << EM_OK >>
    [] result = "memory" -> << ED_OK >>
    [] result \in {"et_data", "ev_data"} -> << ET_OK >>
    [] result = "init_complete" -> << Ez_OK, CP_300 >>
    [] OTHER -> << >>

\* Lines 479-506: the frames initialize sends for a parsed result, in order.
AckFrames(result) ==
  CASE result = "password" -> << EP_OK >>
    [] result = "resistance" -> << ER_OK >>
    [] result = "mac" -> << EA_OK >>
    [] result = "diameter" -> << ED_OK >>
    [] result = "memory" -> << EM_OK >>
    [] result \in {"et_data", "ev_data"} -> << ET_OK >>
    [] result = "init_complete" -> << Ez_OK, CP_300 >>
    [] OTHER -> << >>

RECURSIVE SendAll(_, _)
SendAll(st, frames) ==
  IF Len(frames) = 0 THEN st ELSE SendAll(send(st, frames[1]), Tail(frames))

\* Line 508: init_done after a parsed result.
InitDoneAfter(done, result) == done \/ result = "init_complete"

\* Lines 456-465: the call sends <EQ_> and returns False when that fails.
Initialize(fail) ==
  /\ CanCall
  /\ \E st \in {send(IO(bike, fail), EQ_)} :
       IF SendReturned(st)
       THEN /\ bike' = st.bike
            /\ trace' = st.trace
            /\ op' = "initialize"
            /\ ret' = "-"
            /\ calls' = calls + 1
            /\ pc' = "init_recv"
            /\ i' = 0
            /\ init_done' = FALSE
            /\ responses' = << >>
       ELSE /\ Done(st, "initialize", "False")
            /\ UNCHANGED locals
  /\ UNCHANGED << rx, wire >>

\* Lines 466-471: one receive of the loop; nothing received goes on to the
\* next iteration.
InitializeReceive(outcome, data) ==
  /\ pc = "init_recv"
  /\ i < PollCeiling
  /\ MayRead(outcome)
  /\ \E r \in {receive(bike, outcome, data)} :
       /\ bike' = r.bike
       /\ rx' = r.ret
       /\ trace' = << [e |-> "recv", frame |-> data, res |-> outcome] >>
       /\ IF Falsy(r.ret)
          THEN /\ i' = i + 1
               /\ pc' = "init_recv"
               /\ responses' = << >>
          ELSE /\ i' = i
               /\ pc' = "init_handle"
               /\ responses' = r.ret[1]
  /\ op' = "init_receive"
  /\ UNCHANGED << init_done, ret, calls, wire >>

\* Lines 473-511: one frame of the read is parsed and answered; after the
\* last frame of the read the loop ends if init_done, and goes on otherwise.
\* An exception of parse_command leaves initialize.
InitializeHandle(fail) ==
  /\ pc = "init_handle"
  /\ \E response \in {Head(responses)} :
     \E p \in {parse_command(bike, response)} :
     \E s0 \in {Event(IO(p.bike, fail), "parse", response, p.res)} :
        IF p.res = "raise"
        THEN /\ bike' = p.bike
             /\ trace' = s0.trace
             /\ ret' = "raise"
             /\ pc' = "idle"
             /\ NoLocals
             /\ UNCHANGED rawLog
        ELSE \E st \in {SendAll(s0, AckFrames(p.res))} :
             \E done \in {InitDoneAfter(init_done, p.res)} :
                /\ bike' = st.bike
                /\ trace' = st.trace
                /\ ret' = "-"
                /\ init_done' = done
                /\ responses' = Tail(responses)
                /\ rawLog' = IF p.res = "sport_data"
                             THEN Logged(rawLog, response) ELSE rawLog
                /\ IF Len(responses) > 1
                   THEN pc' = "init_handle" /\ i' = i
                   ELSE IF done
                        THEN pc' = "init_exit" /\ i' = i
                        ELSE pc' = "init_recv" /\ i' = i + 1
  /\ op' = "init_handle"
  /\ UNCHANGED << rx, calls, devFrames, stream, delivered >>

\* An exit that gives up when the loop ends without init_done: the variant
\* against which the optimistic exit of lines 516-519 is checked.
InitializeReturnGiveUp ==
  /\ \/ pc = "init_exit"
     \/ pc = "init_recv" /\ i = PollCeiling
  /\ bike' = [bike EXCEPT !.initialized = (pc = "init_exit") \/ bike.initialized]
  /\ ret' = IF pc = "init_exit" THEN "True" ELSE "False"
  /\ pc' = "idle"
  /\ op' = "init_return"
  /\ trace' = << >>
  /\ NoLocals
  /\ UNCHANGED << rx, calls, wire >>

\* Lines 513-519: after the loop, with or without init_done.
InitializeReturn ==
  /\ \/ pc = "init_exit"
     \/ pc = "init_recv" /\ i = PollCeiling
  /\ bike' = [bike EXCEPT !.initialized = TRUE]
  /\ ret' = "True"
  /\ pc' = "idle"
  /\ op' = "init_return"
  /\ trace' = << >>
  /\ NoLocals
  /\ UNCHANGED << rx, calls, wire >>

(***************************************************************************)
(* update_data, lines 558-574, step by step                                *)
(***************************************************************************)
\* Lines 560-566: the call sends <WB_6> and receives once.
UpdateData(fail, outcome, data) ==
  /\ CanCall
  /\ MayRead(outcome)
  /\ IF ~bike.connected
     THEN /\ Done(IO(bike, 0), "update_data", "False")
          /\ UNCHANGED << locals, rx >>
     ELSE \E st \in {send(IO(bike, fail), WB_6)} :
          \E r \in {receive(st.bike, outcome, data)} :
          \E s1 \in {Event([st EXCEPT !.bike = r.bike], "recv", data, outcome)} :
             /\ rx' = r.ret
             /\ IF Falsy(r.ret)
                THEN Done(s1, "update_data", "False") /\ UNCHANGED locals
                ELSE /\ bike' = s1.bike
                     /\ trace' = s1.trace
                     /\ op' = "update_data"
                     /\ ret' = "-"
                     /\ calls' = calls + 1
                     /\ pc' = "upd_handle"
                     /\ responses' = r.ret[1]
                     /\ UNCHANGED << i, init_done >>
  /\ UNCHANGED wire

\* Lines 567-574: one frame of the read; the first sport_data is answered
\* and ends the call.
UpdateHandle(fail) ==
  /\ pc = "upd_handle"
  /\ \E response \in {Head(responses)} :
     \E p \in {parse_command(bike, response)} :
     \E s0 \in {Event(IO(p.bike, fail), "parse", response, p.res)} :
        IF p.res = "raise"
        THEN /\ bike' = p.bike
             /\ trace' = s0.trace
             /\ ret' = "raise"
             /\ pc' = "idle"
             /\ responses' = << >>
             /\ UNCHANGED rawLog
        ELSE IF p.res = "sport_data"
        THEN \E st \in {send(s0, W6_OK)} :
                /\ bike' = st.bike
                /\ trace' = st.trace
                /\ ret' = "True"
                /\ pc' = "idle"
                /\ rawLog' = Logged(rawLog, response)
                /\ responses' = << >>
        ELSE /\ bike' = p.bike
             /\ trace' = s0.trace
             /\ responses' = Tail(responses)
             /\ UNCHANGED rawLog
             /\ IF Len(responses) > 1
                THEN pc' = "upd_handle" /\ ret' = "-"
                ELSE pc' = "idle" /\ ret' = "False"
  /\ op' = "upd_handle"
  /\ UNCHANGED << i, init_done, rx, calls, devFrames, stream, delivered >>

(***************************************************************************)
(* The protocol thread                                                     *)
(***************************************************************************)
\* The reads a recv outcome can bring, out of the reads of a specification.
DataOn(outcome, reads) == IF outcome = "data" THEN reads ELSE {<< >>}

(***************************************************************************)
(* Spec: every operation of the interface, on few inputs                   *)
(***************************************************************************)
Next ==
  \/ \E m \in 0..MaxRetries, k \in 0..MaxRetries, u \in BOOLEAN :
       k <= m /\ (u \/ k > 0) /\ Connect(m, k, u) /\ UNCHANGED << sched, ui >>
  \/ \E fail \in 0..1 : Disconnect(fail) /\ UNCHANGED << sched, ui >>
  \/ \E fail \in 0..1 : Send(WB_6, fail) /\ UNCHANGED << sched, ui >>
  \/ \E o \in RecvOutcomes : \E d \in DataOn(o, FewReads) : Receive(o, d) /\ UNCHANGED << sched, ui >>
  \/ \E c \in FewFrames : ParseCommand(c) /\ UNCHANGED << sched, ui >>
  \/ \E c \in FewTelemetry : ParseSportData(c) /\ UNCHANGED << sched, ui >>
  \/ \E l \in {0, 150}, fail \in 0..1 : SetLevel(l, 1, 20, fail) /\ UNCHANGED << sched, ui >>
  \/ \E fail \in 0..2 : StartSport(fail) /\ UNCHANGED << sched, ui >>
  \/ \E fail \in 0..1 : PauseSport(fail) /\ UNCHANGED << sched, ui >>
  \/ \E fail \in 0..1 : ClearData(fail) /\ UNCHANGED << sched, ui >>
  \/ \E fail \in 0..1 : Initialize(fail) /\ UNCHANGED << sched, ui >>
  \/ \E o \in RecvOutcomes : \E d \in DataOn(o, FewReads) : InitializeReceive(o, d) /\ UNCHANGED << sched, ui >>
  \/ \E fail \in 0..2 : InitializeHandle(fail) /\ UNCHANGED << sched, ui >>
  \/ InitializeReturn /\ UNCHANGED << sched, ui >>
  \/ \E fail \in 0..1, o \in RecvOutcomes : \E d \in DataOn(o, FewReads) :
       UpdateData(fail, o, d) /\ UNCHANGED << sched, ui >>
  \/ \E fail \in 0..1 : UpdateHandle(fail) /\ UNCHANGED << sched, ui >>

Spec == Init /\ [][Next]_vars

(***************************************************************************)
(* SpecParse: parse_command as a function of the frame                     *)
(***************************************************************************)
Codes == { EQ, EP, ET, ER, EA, ED, EM, EU, EV, Ez, W6, CP, << "X", "X" >> }

DataParts ==
  { << >>, OK, SUPERWIGH, << "1", "-", "2", "0" >>, << "a", "-", "b" >>,
    << "2", "0" >>, << "3", "0", "0" >>, << "0", "0", "0" >>,
    << "2", "1", "0", "0" >>, << "1", "E" >>, << "U", "p" >>,
    << "0", "0", "1", "e", "c", "0", "a", "b", "1", "2", "f", "f" >>,
    << "1", ",", "0", "0", "5" >> }

\* Every code with every data part, and every code with no underscore.
ParseFrames ==
  { Frame(c, d) : c \in Codes, d \in DataParts } \cup { Bare(c) : c \in Codes }

\* One parse_command call on a new object.
NextParse ==
  \E c \in ParseFrames : calls = 0 /\ ParseCommand(c) /\ UNCHANGED << sched, ui >>

SpecParse == Init /\ [][NextParse]_vars

(***************************************************************************)
(* SpecInit: one initialize call on an object that has just connected      *)
(***************************************************************************)
\* The state after a connect that succeeded at its first attempt.
Connected == [NewBike EXCEPT !.socket = "open", !.connected = TRUE]

InitConnected ==
  /\ bike = Connected
  /\ pc = "idle"
  /\ i = 0
  /\ init_done = FALSE
  /\ responses = << >>
  /\ ret = "True"
  /\ rx = None
  /\ op = "connect"
  /\ trace = << [e |-> "tcp", frame |-> << >>, res |-> "ok"] >>
  /\ calls = 0
  /\ rawLog = << >>
  /\ devFrames = << >>
  /\ stream = << >>
  /\ delivered = << >>
  /\ NoProgram
  /\ NoUi

NextInit ==
  \/ \E fail \in 0..1 : calls = 0 /\ Initialize(fail) /\ UNCHANGED << sched, ui >>
  \/ \E o \in RecvOutcomes : \E d \in DataOn(o, HandshakeReads) :
       InitializeReceive(o, d) /\ UNCHANGED << sched, ui >>
  \/ \E fail \in 0..2 : InitializeHandle(fail) /\ UNCHANGED << sched, ui >>
  \/ InitializeReturn /\ UNCHANGED << sched, ui >>

SpecInit == InitConnected /\ [][NextInit]_vars

(***************************************************************************)
(* SpecOdo: the odometer over sequences of telemetry frames                *)
(***************************************************************************)
\* Distance fields as the device writes them: three digits, a short field,
\* and one that is not a number.
OdoFields == { T000, T001, T998, << "9", "9", "9" >>, << "5" >>, << "a", "b" >> }

OdoFrames == { W6Frame(<< << "0" >>, d >>) : d \in OdoFields }

NextOdo ==
  \/ \E c \in OdoFrames : ParseSportData(c) /\ UNCHANGED << sched, ui >>
  \/ \E c \in OdoFrames : ParseCommand(c) /\ UNCHANGED << sched, ui >>
  \/ ClearData(0) /\ UNCHANGED << sched, ui >>

SpecOdo == Init /\ [][NextOdo]_vars

(***************************************************************************)
(* SpecCodec: receive over a byte stream that recv cuts anywhere           *)
(***************************************************************************)
\* The frames the device writes in this specification.
CodecFrames ==
  { Frame(EQ, OK), Frame(ER, << "1", "-", "2", "0" >>), Bare(<< "A" >>) }

\* The most frames the device writes.
MaxDevFrames == 2

\* The device writes one more frame to the connection.
DeviceWrite(f) ==
  /\ pc = "idle"
  /\ Len(devFrames) < MaxDevFrames
  /\ devFrames' = Append(devFrames, f)
  /\ stream' = stream \o f
  /\ op' = "device_write"
  /\ UNCHANGED << bike, locals, pc, ret, rx, trace, calls, rawLog, delivered >>

\* A receive call whose recv returns the first n bytes of the stream.
StreamReceive(n) ==
  /\ pc = "idle"
  /\ MayRead("data")
  /\ n \in 1..Len(stream)
  /\ \E data \in {SubSeq(stream, 1, n)} : \E r \in {receive(bike, "data", data)} :
       /\ bike' = r.bike
       /\ rx' = r.ret
       /\ ret' = IF IsNone(r.ret) THEN "None" ELSE "list"
       /\ trace' = << [e |-> "recv", frame |-> data, res |-> "data"] >>
       /\ delivered' = IF IsNone(r.ret) THEN delivered ELSE delivered \o r.ret[1]
  /\ stream' = SubSeq(stream, n + 1, Len(stream))
  /\ op' = "receive"
  /\ calls' = calls + 1
  /\ UNCHANGED << locals, pc, rawLog, devFrames >>

NextCodec ==
  \/ \E f \in CodecFrames : DeviceWrite(f) /\ UNCHANGED << sched, ui >>
  \/ \E n \in 1..Len(stream) : StreamReceive(n) /\ UNCHANGED << sched, ui >>

SpecCodec == InitConnected /\ [][NextCodec]_vars

(***************************************************************************)
(* SpecReconnect: handshake frames, disconnect and connect on one object   *)
(***************************************************************************)
\* Lines 49-56: what the handshake tells about the device.
DeviceInfo(b) ==
  [password |-> b.password,
   resistance_min |-> b.resistance_min,
   resistance_max |-> b.resistance_max,
   wheel_diameter |-> b.wheel_diameter,
   mac_address |-> b.mac_address,
   unit_type |-> b.unit_type,
   memory_data |-> b.memory_data]

\* Dashboard.run reconnects with disconnect() followed by connect() on the
\* object it created at start-up.
NextReconnect ==
  \/ \E c \in HandshakeFrames \cup {Frame(EU, << "K" >>)} : ParseCommand(c) /\ UNCHANGED << sched, ui >>
  \/ \E fail \in 0..1 : Disconnect(fail) /\ UNCHANGED << sched, ui >>
  \/ \E k \in 0..MaxRetries : Connect(MaxRetries, k, TRUE) /\ UNCHANGED << sched, ui >>

SpecReconnect == InitConnected /\ [][NextReconnect]_vars

(***************************************************************************)
(* SpecLevel: set_level over levels and ranges                             *)
(***************************************************************************)
\* Levels a caller may ask for: below, inside and above the ranges.
LevelInputs == {-3, 0, 1, 3, 7, 10, 15, 20, 21, 60, 100, 101, 150}

\* Ranges << min, max >>: the one of the protocol example, narrow ones, the
\* widest a two-digit field can hold, one beyond it, and the range of an
\* object that has received no <ER_..> frame (lines 50-51).
LevelRanges == { << 1, 20 >>, << 5, 10 >>, << 1, 100 >>, << 1, 120 >>, << 0, 0 >> }

NextLevel ==
  \E l \in LevelInputs, r \in LevelRanges, fail \in 0..1 :
    SetLevel(l, r[1], r[2], fail) /\ UNCHANGED << sched, ui >>

SpecLevel == InitConnected /\ [][NextLevel]_vars

(***************************************************************************)
(* SpecProgram: a SportProgram, its callers and the clock                  *)
(***************************************************************************)
\* Programs as parse_file leaves them: the breakpoints (1,5), (3,10), (6,15)
\* over 6 segments; a program whose first breakpoint is at segment 2; and a
\* file with no SEGMENTS line.
Programs ==
  { NewProgram(<< << 1, 5 >>, << 3, 10 >>, << 6, 15 >> >>, 6),
    NewProgram(<< << 2, 4 >>, << 3, 8 >> >>, 3),
    NewProgram(<< << 1, 7 >> >>, 0) }

\* Durations in minutes, as get_duration_input returns them (1-180).
Durations == {1, 60}

\* The instants, in seconds, at which something happens.
Instants == {0, 30, 60, 599, 600, 1250, 3599, 3600, 4000}

\* The most calls made on one program.
MaxProgramCalls == 4

ProgramInit ==
  /\ bike = NewBike
  /\ pc = "idle"
  /\ i = 0
  /\ init_done = FALSE
  /\ responses = << >>
  /\ ret = "-"
  /\ rx = None
  /\ op = "new"
  /\ trace = << >>
  /\ calls = 0
  /\ rawLog = << >>
  /\ devFrames = << >>
  /\ stream = << >>
  /\ delivered = << >>
  /\ prog \in Programs
  /\ now = 0
  /\ presult = << >>
  /\ NoUi

\* A call on the program; the bike is left alone.
ProgramCall(name, p, result, raised) ==
  /\ pc = "idle"
  /\ calls < MaxProgramCalls
  /\ prog' = p
  /\ presult' = result
  /\ ret' = IF raised THEN "raise" ELSE "value"
  /\ op' = name
  /\ calls' = calls + 1
  /\ UNCHANGED << bike, pc, locals, rx, trace, wire, now, threads >>

\* Dashboard.run, lines 605-608: a program chosen at start-up, before it is
\* started, becomes the active program and gets its duration.
SelectProgram(d) ==
  /\ IsNone(prog.start_time)
  /\ ProgramCall("select_program",
                 calculate_segment_duration([prog EXCEPT !.duration_minutes = d]),
                 << >>, FALSE)
  /\ dash' = [dash EXCEPT !.active_program = TRUE]

\* Dashboard.run, lines 684-689: a program chosen while the dashboard runs
\* gets its duration and is started at once.
ReselectProgram(d) ==
  /\ ProgramCall("reselect_program",
                 start(calculate_segment_duration(
                         [prog EXCEPT !.duration_minutes = d]), now),
                 << >>, FALSE)
  /\ dash' = [dash EXCEPT !.active_program = TRUE,
                          !.program_completed = FALSE]

CalculateSegmentDuration ==
  /\ ProgramCall("calculate_segment_duration", calculate_segment_duration(prog),
                 << >>, FALSE)
  /\ UNCHANGED dash

Start == ProgramCall("start", start(prog, now), << >>, FALSE) /\ UNCHANGED dash

GetCurrentLevel ==
  /\ \E r \in {get_current_level(prog, now)} :
       ProgramCall("get_current_level", r.prog, r.ret, r.raised)
  /\ UNCHANGED dash

GetProgress ==
  /\ ProgramCall("get_progress", prog, get_progress(prog, now), FALSE)
  /\ UNCHANGED dash

GetCurrentSegmentInfo ==
  /\ ProgramCall("get_current_segment_info", prog,
                 get_current_segment_info(prog, now), FALSE)
  /\ UNCHANGED dash

\* Time passes between two calls.
Advance(t) ==
  /\ pc = "idle"
  /\ t > now
  /\ now' = t
  /\ op' = "advance"
  /\ UNCHANGED << bike, pc, locals, ret, rx, trace, calls, wire, prog, presult, ui >>

NextProgram ==
  \/ \E d \in Durations : SelectProgram(d)
  \/ \E d \in Durations : ReselectProgram(d)
  \/ CalculateSegmentDuration
  \/ Start
  \/ GetCurrentLevel
  \/ GetProgress
  \/ GetCurrentSegmentInfo
  \/ \E t \in Instants : Advance(t)

SpecProgram == ProgramInit /\ [][NextProgram]_vars

(***************************************************************************)
(* SpecDash: the dashboard steering the bike by a program                  *)
(*                                                                         *)
(* time.time() and datetime.now() read one clock, in whole seconds.  The   *)
(* dashboard runs with a bike object (self.bike is not None).              *)
(***************************************************************************)
\* An update_program_level without the test of line 382: the variant against
\* which the one-second limit is checked.
update_program_level_unthrottled(d, p, st, t) ==
  IF ~d.active_program \/ d.paused \/ ~st.bike.connected
  THEN [dash |-> d, prog |-> p, st |-> st, raised |-> FALSE]
  ELSE IF p.completed
  THEN [dash |-> [d EXCEPT !.program_completed = TRUE], prog |-> p, st |-> st,
        raised |-> FALSE]
  ELSE LET d1 == [d EXCEPT !.last_level_change = t]
           r == get_current_level(p, t)
       IN IF r.raised
          THEN [dash |-> d1, prog |-> r.prog, st |-> st, raised |-> TRUE]
          ELSE IF ~IsNone(r.ret[1]) /\ r.ret[1][1] # 0
                  /\ r.ret[1][1] # st.bike.level
          THEN [dash |-> d1, prog |-> r.prog,
                st |-> set_level(st, r.ret[1][1], st.bike.resistance_min,
                                 st.bike.resistance_max),
                raised |-> FALSE]
          ELSE [dash |-> d1, prog |-> r.prog, st |-> st, raised |-> FALSE]

\* An update_program_level that applies the lowest level of the range when
\* the program yields none: the variant against which "no level, no command"
\* is checked.
update_program_level_floor(d, p, st, t) ==
  IF ~d.active_program \/ d.paused \/ ~st.bike.connected
  THEN [dash |-> d, prog |-> p, st |-> st, raised |-> FALSE]
  ELSE IF p.completed
  THEN [dash |-> [d EXCEPT !.program_completed = TRUE], prog |-> p, st |-> st,
        raised |-> FALSE]
  ELSE IF t - d.last_level_change < 1
  THEN [dash |-> d, prog |-> p, st |-> st, raised |-> FALSE]
  ELSE LET d1 == [d EXCEPT !.last_level_change = t]
           r == get_current_level(p, t)
       IN IF r.raised
          THEN [dash |-> d1, prog |-> r.prog, st |-> st, raised |-> TRUE]
          ELSE IF IsNone(r.ret[1])
          THEN [dash |-> d1, prog |-> r.prog,
                st |-> set_level(st, st.bike.resistance_min,
                                 st.bike.resistance_min,
                                 st.bike.resistance_max),
                raised |-> FALSE]
          ELSE IF r.ret[1][1] # 0 /\ r.ret[1][1] # st.bike.level
          THEN [dash |-> d1, prog |-> r.prog,
                st |-> set_level(st, r.ret[1][1], st.bike.resistance_min,
                                 st.bike.resistance_max),
                raised |-> FALSE]
          ELSE [dash |-> d1, prog |-> r.prog, st |-> st, raised |-> FALSE]

\* An update_program_level that goes on while the dashboard is paused: the
\* variant against which the guards of line 374 are checked.
update_program_level_while_paused(d, p, st, t) ==
  IF ~d.active_program \/ ~st.bike.connected
  THEN [dash |-> d, prog |-> p, st |-> st, raised |-> FALSE]
  ELSE IF p.completed
  THEN [dash |-> [d EXCEPT !.program_completed = TRUE], prog |-> p, st |-> st,
        raised |-> FALSE]
  ELSE IF t - d.last_level_change < 1
  THEN [dash |-> d, prog |-> p, st |-> st, raised |-> FALSE]
  ELSE LET d1 == [d EXCEPT !.last_level_change = t]
           r == get_current_level(p, t)
       IN IF r.raised
          THEN [dash |-> d1, prog |-> r.prog, st |-> st, raised |-> TRUE]
          ELSE IF ~IsNone(r.ret[1]) /\ r.ret[1][1] # 0
                  /\ r.ret[1][1] # st.bike.level
          THEN [dash |-> d1, prog |-> r.prog,
                st |-> set_level(st, r.ret[1][1], st.bike.resistance_min,
                                 st.bike.resistance_max),
                raised |-> FALSE]
          ELSE [dash |-> d1, prog |-> r.prog, st |-> st, raised |-> FALSE]

\* Dashboard.update_program_level at time t, lines 372-390.  The result is the
\* dashboard fields, the program, the bike with the events of the call, and
\* whether get_current_level raised.  A target level of None or 0 is falsy.
update_program_level(d, p, st, t) ==
  IF ~d.active_program \/ d.paused \/ ~st.bike.connected
  THEN [dash |-> d, prog |-> p, st |-> st, raised |-> FALSE]
  ELSE IF p.completed
  THEN [dash |-> [d EXCEPT !.program_completed = TRUE], prog |-> p, st |-> st,
        raised |-> FALSE]
  ELSE IF t - d.last_level_change < 1
  THEN [dash |-> d, prog |-> p, st |-> st, raised |-> FALSE]
  ELSE LET d1 == [d EXCEPT !.last_level_change = t]
           r == get_current_level(p, t)
       IN IF r.raised
          THEN [dash |-> d1, prog |-> r.prog, st |-> st, raised |-> TRUE]
          ELSE IF ~IsNone(r.ret[1]) /\ r.ret[1][1] # 0
                  /\ r.ret[1][1] # st.bike.level
          THEN [dash |-> d1, prog |-> r.prog,
                st |-> set_level(st, r.ret[1][1], st.bike.resistance_min,
                                 st.bike.resistance_max),
                raised |-> FALSE]
          ELSE [dash |-> d1, prog |-> r.prog, st |-> st, raised |-> FALSE]

\* The most calls the dashboard makes.
MaxDashCalls == 5

\* One pass of the main loop through lines 724-725.
UpdateProgramLevel(fail) ==
  /\ pc = "idle"
  /\ calls < MaxDashCalls
  /\ \E r \in {update_program_level(dash, prog, IO(bike, fail), now)} :
       /\ bike' = r.st.bike
       /\ trace' = r.st.trace
       /\ dash' = r.dash
       /\ prog' = r.prog
       /\ ret' = IF r.raised THEN "raise" ELSE "None"
       /\ sentAt' = IF r.st.trace # << >> THEN Append(sentAt, now) ELSE sentAt
  /\ op' = "update_program_level"
  /\ calls' = calls + 1
  /\ UNCHANGED << pc, locals, rx, wire, now, presult, lock, reader, status >>

\* The space key, lines 665-671: pause, or resume.
Space(fail) ==
  /\ pc = "idle"
  /\ calls < MaxDashCalls
  /\ \E st \in {IF dash.paused
                THEN send(send(IO(bike, fail), WB_6), CP_000)
                ELSE send(IO(bike, fail), CP_300)} :
       /\ bike' = st.bike
       /\ trace' = st.trace
  /\ dash' = [dash EXCEPT !.paused = ~dash.paused]
  /\ op' = "space"
  /\ ret' = "None"
  /\ calls' = calls + 1
  /\ UNCHANGED << pc, locals, rx, wire, sched, threads >>

\* Programs of one minute's worth of short segments, and one without segments.
DashPrograms ==
  { NewProgram(<< << 1, 5 >>, << 3, 10 >>, << 6, 15 >> >>, 6),
    NewProgram(<< << 2, 4 >>, << 3, 8 >> >>, 3),
    NewProgram(<< << 1, 7 >> >>, 0) }

\* Telemetry in which the bike reports level 5, and level 10.
DashFrames ==
  { W6Frame(<< << "0" >>, T001, T000, T000, << "0", "5" >> >>),
    W6Frame(<< << "0" >>, T001, T000, T000, << "1", "0" >> >>) }

\* Instants of the first minute and a half after start-up.
DashInstants == {2, 3, 21, 61, 62}

\* The dashboard after start-up with a bike that answered: connected, with
\* the range of the handshake, and the program file parsed.  The clock reads
\* a time after the zero of line 31.
DashInit ==
  /\ bike = [NewBike EXCEPT !.socket = "open", !.connected = TRUE,
                            !.resistance_min = 1, !.resistance_max = 20]
  /\ pc = "idle"
  /\ i = 0
  /\ init_done = FALSE
  /\ responses = << >>
  /\ ret = "-"
  /\ rx = None
  /\ op = "new"
  /\ trace = << >>
  /\ calls = 0
  /\ rawLog = << >>
  /\ devFrames = << >>
  /\ stream = << >>
  /\ delivered = << >>
  /\ prog \in DashPrograms
  /\ now = 1
  /\ presult = << >>
  /\ NoUi

NextDash ==
  \/ SelectProgram(1)
  \/ Start
  \/ \E t \in DashInstants : Advance(t)
  \/ \E c \in DashFrames : ParseSportData(c) /\ UNCHANGED << sched, ui >>
  \/ Disconnect(0) /\ UNCHANGED << sched, ui >>
  \/ Space(0)
  \/ \E fail \in 0..1 : UpdateProgramLevel(fail)

SpecDash == DashInit /\ [][NextDash]_vars

(***************************************************************************)
(* SpecFields: the telemetry decoder over well-formed and odd fields       *)
(***************************************************************************)
\* The keys of the dictionary of get_status, lines 580-595, in their order.
StatusKeys ==
  << "connected", "initialized", "distance", "speed", "rpm", "heart_rate",
     "level", "calories", "watts", "last_update", "messages_sent",
     "messages_received", "resistance_min", "resistance_max",
     "wheel_diameter", "mac_address" >>

\* ISuperBike.get_status, lines 576-596.
get_status(b) == [k \in {StatusKeys[n] : n \in 1..Len(StatusKeys)} |-> b[k]]

\* A call of get_status that no other thread interleaves with.
GetStatus ==
  /\ CanCall
  /\ lock = "free"
  /\ status' = Some(get_status(bike))
  /\ Done(IO(bike, 0), "get_status", "dict")
  /\ UNCHANGED << locals, rx, wire, sched, dash, lock, reader, sentAt >>

\* W6 frames: a full one; one with short fields; one whose distance, heart
\* rate, calories and watts are not numbers; one with the distance only; one
\* with an empty distance field; one with a lone sign in every field; one
\* with fields longer than their width; one with signed fields.
FieldFrames ==
  { W6Frame(<< << "0" >>, T998, << "0", "6", "0" >>, << "0", "7", "2" >>,
               << "0", "3" >>, << "0", "0", "0", "5", "0", "0" >>,
               << "1", "0", "0" >>, << "0", "0" >> >>),
    W6Frame(<< << "1" >>, << "5" >>, << "9" >>, << "7" >>, << "0", "7" >>,
               << "5" >>, << "1" >> >>),
    W6Frame(<< << "2" >>, << "a", "b" >>, << "0", "6", "1" >>, << "x" >>,
               << "7" >>, << "z", "z" >>, << "1", "a" >> >>),
    W6Frame(<< << "3" >>, T001 >>),
    W6Frame(<< << "4" >>, << >>, << "0", "6", "2" >> >>),
    W6Frame(<< << "5" >>, << "-" >>, << "-" >>, << "-" >>, << "-" >>,
               << "-" >>, << "-" >> >>),
    W6Frame(<< << "6" >>, << "1", "2", "3", "4" >>, << "0", "6", "0", "1" >> >>),
    W6Frame(<< << "7" >>, << "-", "5" >>, << "+", "6", "1" >> >>) }

NextFields ==
  \/ \E c \in FieldFrames : ParseSportData(c) /\ UNCHANGED << sched, ui >>
  \/ ClearData(0) /\ UNCHANGED << sched, ui >>
  \/ GetStatus

SpecFields == InitConnected /\ [][NextFields]_vars

(***************************************************************************)
(* SpecRange: set_level with the range the handshake stored                *)
(***************************************************************************)
\* <ER_min-max> frames: the range of the protocol example, a narrow one, the
\* widest whose levels fit two digits, and one beyond it.
RangeFrames ==
  { Frame(ER, << "1", "-", "2", "0" >>), Frame(ER, << "5", "-", "1", "0" >>),
    Frame(ER, << "1", "-", "1", "0", "0" >>),
    Frame(ER, << "1", "-", "1", "2", "0" >>) }

\* The dashboard's calls of set_level (src/dashboard.py lines 389-390 and
\* 702-709), which pass the range kept in the object.
SetLevelStored(level, fail) ==
  SetLevel(level, bike.resistance_min, bike.resistance_max, fail)

NextRange ==
  \/ \E c \in RangeFrames : ParseCommand(c) /\ UNCHANGED << sched, ui >>
  \/ \E l \in LevelInputs, fail \in 0..1 :
       SetLevelStored(l, fail) /\ UNCHANGED << sched, ui >>

SpecRange == InitConnected /\ [][NextRange]_vars

(***************************************************************************)
(* SpecSnapshot: get_status in a second thread                             *)
(*                                                                         *)
(* The protocol thread decodes a frame or clears the data one assignment   *)
(* after the other; another thread builds the dictionary of get_status one *)
(* key after the other while it holds bike.lock.  Threads switch between   *)
(* any two of these steps.                                                 *)
(***************************************************************************)
\* The seven telemetry fields of an object, or of a dictionary of get_status.
Telemetry(b) ==
  << b.distance, b.rpm, b.heart_rate, b.level, b.calories, b.watts, b.speed >>

\* parse_sport_data, lines 281-348, in seven writes: 1 the sync counter and
\* the distance with its odometer state, 2 rpm, 3 heart_rate, 4 level,
\* 5 calories, 6 watts, 7 speed.  No write is made under bike.lock.
DecodeWrite(b, dp, k) ==
  CASE k = 1 ->
         DecodeDistance(
           [b EXCEPT !.sync = Some(IF IsDigit(dp[1]) THEN IntVal(dp[1]) ELSE 0)],
           dp)
    [] k = 2 -> [b EXCEPT !.rpm = PaddedField(dp, 2, 3, b.rpm)]
    [] k = 3 -> [b EXCEPT !.heart_rate = PaddedField(dp, 3, 3, b.heart_rate)]
    [] k = 4 -> [b EXCEPT !.level = PaddedField(dp, 4, 2, b.level)]
    [] k = 5 -> [b EXCEPT !.calories = PaddedField(dp, 5, 6, b.calories)]
    [] k = 6 -> [b EXCEPT !.watts = PaddedField(dp, 6, 3, b.watts)]
    [] k = 7 -> [b EXCEPT !.speed = b.rpm * 55]

\* The telemetry records a get_status may report: those the object held
\* between two operations of the protocol thread while the dictionary was
\* being built.  An operation that begins adds the record it will leave.
SeenWith(after) ==
  (IF lock = "reader" THEN reader.seen ELSE {Telemetry(bike)})
    \cup {Telemetry(after)}

\* The protocol thread enters parse_sport_data with a frame.
DecodeBegin(c) ==
  /\ CanCall
  /\ ~IsNone(SportFields(c))
  /\ pc' = "decode"
  /\ responses' = << c >>
  /\ i' = 1
  /\ op' = "decode_begin"
  /\ ret' = "-"
  /\ trace' = << >>
  /\ calls' = calls + 1
  /\ reader' = [reader EXCEPT !.seen = SeenWith(parse_sport_data(bike, c).bike)]
  /\ UNCHANGED << bike, init_done, rx, wire, sched, dash, lock, status, sentAt >>

\* Its next write; after the last one it returns True.
DecodeStep ==
  /\ pc = "decode"
  /\ bike' = DecodeWrite(bike, SportFields(responses[1])[1], i)
  /\ IF i < 7
     THEN /\ i' = i + 1
          /\ UNCHANGED << pc, responses, ret, rawLog >>
     ELSE /\ i' = 0
          /\ pc' = "idle"
          /\ responses' = << >>
          /\ ret' = "True"
          /\ rawLog' = Logged(rawLog, responses[1])
  /\ op' = "parse_sport_data"
  /\ UNCHANGED << init_done, rx, trace, calls, devFrames, stream, delivered,
                  sched, ui >>

\* clear_data, line 550: the protocol thread sends <CC_>.
ClearSend(fail) ==
  /\ CanCall
  /\ \E st \in {send(IO(bike, fail), CC_)} :
       /\ bike' = st.bike
       /\ trace' = st.trace
  /\ pc' = "clear_lock"
  /\ op' = "clear_begin"
  /\ ret' = "-"
  /\ calls' = calls + 1
  /\ reader' = [reader EXCEPT !.seen =
                  SeenWith([bike EXCEPT !.distance = 0, !.calories = 0])]
  /\ UNCHANGED << locals, rx, wire, sched, dash, lock, status, sentAt >>

\* Line 551: it takes the lock, and waits while another thread holds it.
ClearAcquire ==
  /\ pc = "clear_lock"
  /\ lock = "free"
  /\ lock' = "protocol"
  /\ pc' = "clear_write"
  /\ op' = "clear_acquire"
  /\ UNCHANGED << bike, locals, ret, rx, trace, calls, wire, sched, dash,
                  reader, status, sentAt >>

\* Lines 552-556: the four writes under the lock, and its release.
ClearWrite ==
  /\ pc = "clear_write"
  /\ bike' = [bike EXCEPT !.distance = 0, !.calories = 0,
                          !.hi_dist_value = 0, !.old_distance = 0]
  /\ lock' = "free"
  /\ pc' = "idle"
  /\ op' = "clear_data"
  /\ ret' = "None"
  /\ rawLog' = << >>
  /\ UNCHANGED << locals, rx, trace, calls, devFrames, stream, delivered,
                  sched, dash, reader, status, sentAt >>

\* get_status, line 578: the other thread takes the lock.
GetStatusAcquire ==
  /\ calls < MaxCalls
  /\ lock = "free"
  /\ lock' = "reader"
  /\ reader' = [snap |-> << >>,
                seen |-> IF pc = "idle" THEN {Telemetry(bike)}
                         ELSE reader.seen]
  /\ calls' = calls + 1
  /\ op' = "status_acquire"
  /\ UNCHANGED << bike, pc, locals, ret, rx, trace, wire, sched, dash, status,
                  sentAt >>

\* Lines 580-595: it reads the next attribute into the dictionary.
GetStatusRead ==
  /\ lock = "reader"
  /\ Len(reader.snap) < Len(StatusKeys)
  /\ reader' = [reader EXCEPT !.snap =
                  Append(reader.snap, bike[StatusKeys[Len(reader.snap) + 1]])]
  /\ op' = "status_read"
  /\ UNCHANGED << bike, pc, locals, ret, rx, trace, calls, wire, sched, dash,
                  lock, status, sentAt >>

\* Line 579: it returns the dictionary and releases the lock.
GetStatusReturn ==
  /\ lock = "reader"
  /\ Len(reader.snap) = Len(StatusKeys)
  /\ status' = Some([k \in {StatusKeys[n] : n \in 1..Len(StatusKeys)} |->
                       reader.snap[CHOOSE n \in 1..Len(StatusKeys) :
                                     StatusKeys[n] = k]])
  /\ reader' = [reader EXCEPT !.snap = << >>]
  /\ lock' = "free"
  /\ op' = "get_status"
  /\ UNCHANGED << bike, pc, locals, ret, rx, trace, calls, wire, sched, dash,
                  sentAt >>

\* A full telemetry frame, with a value other than zero in every field.
SnapFrames ==
  { W6Frame(<< << "0" >>, T998, << "0", "6", "0" >>, << "0", "7", "2" >>,
               << "0", "3" >>, << "0", "0", "0", "5", "0", "0" >>,
               << "1", "0", "0" >>, << "0", "0" >> >>) }

NextSnapshot ==
  \/ \E c \in SnapFrames : DecodeBegin(c)
  \/ DecodeStep
  \/ ClearSend(0)
  \/ ClearAcquire
  \/ ClearWrite
  \/ GetStatusAcquire
  \/ GetStatusRead
  \/ GetStatusReturn

SpecSnapshot == InitConnected /\ [][NextSnapshot]_vars

(***************************************************************************)
(* SpecUpdate: update_data calls on a connected object                     *)
(***************************************************************************)
\* What one recv may return to update_data: no telemetry, telemetry after
\* another frame and before more telemetry, telemetry after a frame without
\* data, and the telemetry acknowledgement.
UpdateReads ==
  { Frame(Ez, OK),
    Concat(<< Frame(ED, << "2", "2", "0", "0" >>), W6Frame(<< << "0" >>, T998 >>),
              W6Frame(<< << "1" >>, T000, << "1", "0", "0" >> >>) >>),
    Concat(<< Bare(ER), W6Frame(<< << "0" >>, T998 >>) >>),
    Frame(W6, OK) }

NextUpdate ==
  \/ \E fail \in 0..1, o \in RecvOutcomes : \E d \in DataOn(o, UpdateReads) :
       UpdateData(fail, o, d) /\ UNCHANGED << sched, ui >>
  \/ \E fail \in 0..1 : UpdateHandle(fail) /\ UNCHANGED << sched, ui >>

SpecUpdate == InitConnected /\ [][NextUpdate]_vars

(***************************************************************************)
(* Properties                                                              *)
(***************************************************************************)
\* The send events of a step, in order.
IsSend(ev) == ev.e = "send"

Sends(tr) == SelectSeq(tr, IsSend)

\* The frames a step passed to send, in order.
SentFrames(tr) == [k \in 1..Len(Sends(tr)) |-> Sends(tr)[k].frame]

\* C1: hi_dist_value never decreases except in clear_data, which sets it to 0
\* together with distance; it grows by exactly one in a step that decodes a
\* raw distance counter strictly below the previous one, and every other step
\* (a decode of an equal or larger counter included) leaves it unchanged.
C1_WrapsChangeOnlyByDecodeAndClear ==
  [][IF op' = "clear_data" /\ calls' = calls + 1
     THEN bike'.hi_dist_value = 0 /\ bike'.distance = 0
     ELSE IF /\ Len(rawLog') = Len(rawLog) + 1
             /\ rawLog'[Len(rawLog')] < bike.old_distance
          THEN bike'.hi_dist_value = bike.hi_dist_value + 1
          ELSE bike'.hi_dist_value = bike.hi_dist_value]_vars

\* A wrap from 998 to 000 has been counted.
C1_Witness == bike.hi_dist_value = 1 /\ rawLog = << 998, 0 >>

\* The number of positions of a log whose counter is below the one before it,
\* the counter before the first being 0.
Descents(log) ==
  Cardinality({k \in 1..Len(log) : log[k] < (IF k = 1 THEN 0 ELSE log[k - 1])})

LastRaw(log) == IF Len(log) = 0 THEN 0 ELSE log[Len(log)]

\* C2: from a new or just-cleared object, after the raw counters r1..rn have
\* been decoded, hi_dist_value is the number of i with r(i) < r(i-1) (r0 = 0),
\* old_distance is rn, and the distance is computed from the full counter
\* hi_dist_value * 1000 + rn; 998, 000, 001 gives one wrap and 1001.
C2_WrapsCountDescents ==
  /\ bike.hi_dist_value = Descents(rawLog)
  /\ bike.old_distance = LastRaw(rawLog)
  /\ bike.distance =
       IF Len(rawLog) = 0 THEN 0
       ELSE bike.wheel_diameter * (Descents(rawLog) * 1000 + LastRaw(rawLog))
  /\ rawLog = << 998, 0, 1 >> =>
       bike.hi_dist_value = 1 /\ bike.distance = bike.wheel_diameter * 1001

C2_Witness == rawLog = << 998, 0, 1 >> /\ bike.hi_dist_value = 1

\* C3: parse_command returns a result tag for every frame and never raises,
\* and a frame of a code outside the command table gives "unknown".
C3_ParseNeverRaises ==
  op = "parse_command" =>
    /\ ret # "raise"
    /\ CmdOf(trace[1].frame) = << "X", "X" >> => ret = "unknown"

\* C4: when the polling ceiling is reached without init_done, initialize sets
\* initialized and returns True.
C4_CeilingReachedReturnsTrue ==
  [][pc = "init_recv" /\ i = PollCeiling =>
       pc' = "idle" /\ ret' = "True" /\ bike'.initialized]_vars

\* initialize has returned True after ten reads that brought nothing.
C4_Witness ==
  /\ op = "init_return"
  /\ ret = "True"
  /\ bike.initialized
  /\ bike.messages_received = 0
  /\ bike.messages_sent = 1

\* C5: a result that arrives out of the handshake's order is not answered and
\* does not complete the handshake: InitComplete before the password has been
\* received, and Memory before the resistance range has been received.
C5_OutOfOrderIgnored ==
  op = "init_handle" =>
    /\ trace[1].res = "init_complete" /\ IsNone(bike.password) =>
         Sends(trace) = << >> /\ pc # "init_exit"
    /\ trace[1].res = "memory" /\ bike.resistance_max = 0 =>
         Sends(trace) = << >>

\* The acknowledgement paired with a parsed result.
PairedAck(result) ==
  CASE result = "password" -> << EP_OK >>
    [] result = "resistance" -> << ER_OK >>
    [] result = "mac" -> << EA_OK >>
    [] result = "diameter" -> << ED_OK >>
    [] result = "memory" -> << EM_OK >>

\* C6: for a frame that parses as Password, Resistance, Mac, Diameter or Memory
\* initialize calls send exactly once, with the paired acknowledgement, before
\* it parses the next frame; InitAck and Unknown cause no send.
C6_OneAckPerFrame ==
  op = "init_handle" =>
    /\ trace[1].e = "parse"
    /\ \A k \in 2..Len(trace) : trace[k].e = "send"
    /\ trace[1].res \in {"password", "resistance", "mac", "diameter", "memory"} =>
         SentFrames(trace) = PairedAck(trace[1].res)
    /\ trace[1].res \in {"init_ack", "unknown"} => Len(trace) = 1

\* The memory frame has been answered with <EM_OK>, and the write succeeded.
C6_Witness ==
  /\ op = "init_handle"
  /\ trace[1].res = "memory"
  /\ Len(trace) = 2
  /\ trace[2] = [e |-> "send", frame |-> EM_OK, res |-> "ok"]

\* C7: when a frame parses as InitComplete, initialize sends <Ez_OK> and then
\* <CP_300> with nothing in between, polls no more after the current read,
\* sets initialized and returns True.
C7_CompleteReturnsTrue ==
  [][/\ op' = "init_handle" /\ pc = "init_handle" /\ trace'[1].res = "init_complete" =>
          SentFrames(trace') = << Ez_OK, CP_300 >>
     /\ pc = "init_handle" /\ init_done =>
          /\ pc' \in {"init_handle", "init_exit"}
     /\ pc = "init_exit" =>
          pc' = "idle" /\ ret' = "True" /\ bike'.initialized]_vars

\* The bytes of the first k frames the device wrote.
Offset(k) == Len(Concat(SubSeq(devFrames, 1, k)))

\* Where in the device's bytes the last read began.
ReadStart == Len(Concat(devFrames)) - Len(stream) - Len(trace[1].frame)

\* C8: a read that holds n >= 1 complete frames makes receive return exactly
\* those n frames, in order and unchanged; "<EQ_OK><ER_1-20>" gives the two
\* frames, and parse_command decodes each of them.
C8_WholeFramesReturned ==
  op = "receive" =>
    /\ \A a \in 1..Len(devFrames) : \A b \in a..Len(devFrames) :
         /\ Offset(a - 1) = ReadStart
         /\ trace[1].frame = Concat(SubSeq(devFrames, a, b))
         => rx = Some(SubSeq(devFrames, a, b))
    /\ trace[1].frame = Frame(EQ, OK) \o Frame(ER, << "1", "-", "2", "0" >>) =>
         /\ rx = Some(<< Frame(EQ, OK), Frame(ER, << "1", "-", "2", "0" >>) >>)
         /\ parse_command(bike, rx[1][1]).res = "init_ack"
         /\ parse_command(bike, rx[1][2]).res = "resistance"
         /\ parse_command(bike, rx[1][2]).bike.resistance_min = 1
         /\ parse_command(bike, rx[1][2]).bike.resistance_max = 20

C8_Witness ==
  /\ op = "receive"
  /\ trace[1].frame = Frame(EQ, OK) \o Frame(ER, << "1", "-", "2", "0" >>)
  /\ rx = Some(<< Frame(EQ, OK), Frame(ER, << "1", "-", "2", "0" >>) >>)

\* C9: receive never returns a fragment of a frame that is split across two
\* reads: what it has returned so far is always the first frames the device
\* wrote, whole and once each.
C9_NoFragmentDelivered ==
  /\ Len(delivered) <= Len(devFrames)
  /\ delivered = SubSeq(devFrames, 1, Len(delivered))

\* C10: send writes nothing and returns False when not connected, leaving
\* messages_sent and connected as they are; a write that succeeds returns True
\* and adds one to messages_sent; a write that fails returns False, clears
\* connected, leaves messages_sent and does not reconnect.
C10_SendContract ==
  [][op' = "send" /\ calls' = calls + 1 =>
       /\ Len(trace') = 1
       /\ IF ~bike.connected
          THEN ret' = "False" /\ trace'[1].res = "skip" /\ bike' = bike
          ELSE \/ /\ ret' = "True"
                  /\ trace'[1].res = "ok"
                  /\ bike' = [bike EXCEPT !.messages_sent = bike.messages_sent + 1]
               \/ /\ ret' = "False"
                  /\ trace'[1].res = "fail"
                  /\ bike' = [bike EXCEPT !.connected = FALSE]]_vars

\* A write has failed on a connection that was up.
C10_Witness ==
  /\ op = "send"
  /\ ret = "False"
  /\ trace[1].res = "fail"
  /\ ~bike.connected
  /\ bike.socket = "open"

\* A step that is one receive call made on its own: a direct call, or the
\* receive of one iteration of initialize.
ReceiveStep ==
  \/ op' = "receive" /\ calls' = calls + 1
  \/ op' = "init_receive" /\ pc = "init_recv"

\* C11: the value receive returns when the connection is broken (recv raises
\* an error, or the peer has closed the connection) differs from the value the
\* same call returns when its timeout expires with no data.
C11_BrokenDistinctFromNoData ==
  [][/\ ReceiveStep
     /\ bike.connected /\ bike.socket = "open"
     /\ trace'[1].res \in {"error", "closed"}
     => rx' # receive(bike, "timeout", << >>).ret]_vars

\* C12: a receive call that hits a read error other than a timeout returns
\* with connected false; a receive whose read times out leaves connected (and
\* everything else) as it was.  The receive inside update_data follows a send
\* that succeeded.
C12_ReadErrorDisconnects ==
  [][/\ ReceiveStep /\ bike.connected /\ bike.socket = "open" =>
          /\ trace'[1].res = "error" => ~bike'.connected /\ rx' = Some(<< >>)
          /\ trace'[1].res = "timeout" => bike' = bike /\ rx' = Some(<< >>)
     /\ (op' = "update_data" /\ calls' = calls + 1
           /\ Len(trace') = 2 /\ trace'[1].res = "ok") =>
          /\ trace'[2].res = "error" => ~bike'.connected
          /\ trace'[2].res = "timeout" => bike'.connected]_vars

\* A read error has taken down a connection that was up.
C12_Witness ==
  /\ op = "receive"
  /\ trace[1].res = "error"
  /\ rx = Some(<< >>)
  /\ ~bike.connected
  /\ bike.socket = "open"

\* No event of a step is a write to the socket.
NoWrite(tr) == \A k \in 1..Len(tr) : tr[k].e = "send" => tr[k].res = "skip"

\* C13: disconnect never raises and leaves connected and running false; a
\* second disconnect right after the first changes no field and writes no
\* frame; on a live connection the first call writes <AT_> (counted in
\* messages_sent when the write succeeds) and then closes the socket.
C13_DisconnectIdempotent ==
  [][op' = "disconnect" => \A fail \in 0..1 : Disconnect(fail) =>
       /\ ret' = "None"
       /\ ~bike'.connected /\ ~bike'.running
       /\ bike'.socket = IF bike.socket = "none" THEN "none" ELSE "closed"
       /\ op = "disconnect" =>
            /\ bike' = bike
            /\ NoWrite(trace')
       /\ bike.connected /\ bike.socket = "open" =>
            /\ Len(trace') = 1
            /\ trace'[1].e = "send" /\ trace'[1].frame = AT_
            /\ trace'[1].res = IF fail = 0 THEN "ok" ELSE "fail"
            /\ bike'.messages_sent =
                 IF fail = 0 THEN bike.messages_sent + 1 ELSE bike.messages_sent]_vars

\* A live connection has been closed by one disconnect, which wrote <AT_>,
\* and a second disconnect has followed.
C13_Witness ==
  /\ op = "disconnect"
  /\ calls = 3
  /\ bike.socket = "closed"
  /\ bike.messages_sent = 1
  /\ trace = << [e |-> "send", frame |-> AT_, res |-> "skip"] >>

\* The TCP attempts of a connect step, in order.
IsTcp(ev) == ev.e = "tcp"

TcpAttempts(tr) == SelectSeq(tr, IsTcp)

\* A wake datagram follows every failed TCP attempt but the one at position
\* last, and nothing else is in the step: attempts at the odd positions,
\* datagrams at the even ones.
WakeAfterEachFailure(tr) ==
  \A k \in 1..Len(tr) :
    IF k % 2 = 1 THEN tr[k].e = "tcp"
    ELSE tr[k].e = "udp" /\ tr[k].frame = SUPERWIGH /\ tr[k - 1].res = "fail"

\* C14: connect(max_retries) returns True or False and never raises.  It
\* returns True, with connected true, at the first TCP attempt that succeeds;
\* otherwise it makes exactly max_retries attempts and returns False.  Each
\* failed attempt but the last of the max_retries is followed by exactly one
\* wake datagram, and the attempts go on when that datagram cannot be sent.
C14_ConnectAttempts ==
  [][op' = "connect" =>
     \A m \in 0..MaxRetries, k \in 0..MaxRetries, u \in BOOLEAN :
       Connect(m, k, u) =>
         \E n \in {Len(TcpAttempts(trace'))} :
           /\ ret' \in {"True", "False"}
           /\ n <= m
           /\ WakeAfterEachFailure(trace')
           /\ \A a \in 1..(n - 1) : TcpAttempts(trace')[a].res = "fail"
           /\ ret' = "True" =>
                /\ n >= 1 /\ trace'[Len(trace')] = TcpAttempts(trace')[n]
                /\ TcpAttempts(trace')[n].res = "ok"
                /\ bike'.connected /\ bike'.socket = "open"
           /\ ret' = "False" =>
                /\ n = m
                /\ \A a \in 1..n : TcpAttempts(trace')[a].res = "fail"
                /\ Len(trace') = IF m = 0 THEN 0 ELSE 2 * m - 1
                /\ bike'.connected = bike.connected]_vars

\* Two attempts have failed, the wake datagram between them could not be
\* sent, and connect has returned False.
C14_Witness ==
  /\ op = "connect"
  /\ ret = "False"
  /\ Len(trace) = 3
  /\ trace[2] = [e |-> "udp", frame |-> SUPERWIGH, res |-> "fail"]
  /\ trace[3].e = "tcp"

\* C15: connected goes from false to true only in a connect call: no step of
\* send, receive, initialize, update_data, set_level, start_sport,
\* pause_sport, clear_data, disconnect or of the parsers brings back a
\* connection that a failed write or read has taken down.
C15_OnlyConnectConnects ==
  [][~bike.connected /\ bike'.connected =>
       op' = "connect" /\ calls' = calls + 1 /\ ret' = "True"]_vars

\* A write or a read has failed on a connection (the socket is still the
\* open one), and a later pause_sport has found the connection down.
C15_Witness ==
  /\ op = "pause_sport"
  /\ calls = 3
  /\ bike.socket = "open"
  /\ ~bike.connected
  /\ trace = << [e |-> "send", frame |-> CP_300, res |-> "skip"] >>

\* C16: the device information changes only when a handshake frame is parsed
\* or when it is reset, it is kept while the connection lasts, and a connect
\* that follows a disconnect leaves it at the defaults of a new object.
C16_DeviceInfoResetOnReconnect ==
  [][/\ DeviceInfo(bike') # DeviceInfo(bike) =>
          \/ op' \in {"parse_command", "init_handle", "upd_handle"}
          \/ op' = "connect" /\ DeviceInfo(bike') = DeviceInfo(NewBike)
     /\ op = "disconnect" /\ op' = "connect" /\ bike'.connected =>
          DeviceInfo(bike') = DeviceInfo(NewBike)]_vars

\* clamp(level, min, max) for min <= max.
Clamp(level, min, max) ==
  IF level < min THEN min ELSE IF level > max THEN max ELSE level

\* The step calls send once, with <CR_dd>: dd two decimal digits of value k.
SendsLevel(tr, k) ==
  /\ Len(tr) = 1
  /\ tr[1].e = "send"
  /\ CmdOf(tr[1].frame) = << "C", "R" >>
  /\ Len(DataOf(tr[1].frame)) = 1
  /\ \E dd \in {DataOf(tr[1].frame)[1]} :
       Len(dd) = 2 /\ IsDigit(dd) /\ DecVal(dd) = k
  /\ tr[1].frame = Frame(<< "C", "R" >>, DataOf(tr[1].frame)[1])

\* C17 as stated: for all level, min, max with 1 <= min <= max, set_level
\* sends exactly one frame <CR_k>, k = clamp(level, min, max) - 1 in two
\* digits and never negative.
C17_LevelFrameTwoDigits ==
  [][op' = "set_level" =>
     \A l \in LevelInputs, r \in LevelRanges, fail \in 0..1 :
       SetLevel(l, r[1], r[2], fail) /\ 1 <= r[1] /\ r[1] <= r[2] =>
         /\ Clamp(l, r[1], r[2]) - 1 >= 0
         /\ SendsLevel(trace', Clamp(l, r[1], r[2]) - 1)]_vars

\* C17 amended: the same for 1 <= min <= max <= 100; set_level(150, 1, 20)
\* sends <CR_19> and set_level(0, 1, 20) sends <CR_00>.
C17_LevelFrameUpTo100 ==
  [][op' = "set_level" =>
     \A l \in LevelInputs, r \in LevelRanges, fail \in 0..1 :
       SetLevel(l, r[1], r[2], fail) /\ 1 <= r[1] /\ r[1] <= r[2] /\ r[2] <= 100 =>
         /\ Clamp(l, r[1], r[2]) - 1 >= 0
         /\ SendsLevel(trace', Clamp(l, r[1], r[2]) - 1)
         /\ l = 150 /\ r = << 1, 20 >> =>
              trace'[1].frame = << LT, "C", "R", "_", "1", "9", GT >>
         /\ l = 0 /\ r = << 1, 20 >> =>
              trace'[1].frame = << LT, "C", "R", "_", "0", "0", GT >>]_vars

\* <CR_19> has been written.
C17_Witness ==
  /\ op = "set_level"
  /\ trace = << [e |-> "send", frame |-> << LT, "C", "R", "_", "1", "9", GT >>,
                 res |-> "ok"] >>

\* The seconds since the program was started, and its whole duration.
Elapsed == now - prog.start_time[1]

TotalDuration == prog.duration_minutes * 60

Started == ~IsNone(prog.start_time)

Min(a, b) == IF a <= b THEN a ELSE b

\* The level of the last breakpoint, in ascending order, whose segment number
\* is at most seg; None when there is none.
LastBreakpointLevel(segments, seg) ==
  LET upTo == {k \in 1..Len(segments) : segments[k][1] <= seg}
  IN IF upTo = {} THEN None
     ELSE Some(segments[CHOOSE k \in upTo : \A j \in upTo : j <= k][2])

\* C18: with total_segments >= 1 and a duration set, segment_duration is
\* duration_minutes * 60 / total_segments, and get_current_level at an elapsed
\* time e below the whole duration sets current_segment to
\* min(floor(e / segment_duration) + 1, total_segments) and returns the level
\* of the last breakpoint at or before that segment; breakpoints (1,5),
\* (3,10), (6,15), 6 segments, 60 minutes: 600 s, and segment 3, level 10 at
\* 1250 s.
C18_SegmentAndLevel ==
  prog.total_segments >= 1 /\ prog.duration_minutes >= 1 =>
    /\ prog.segment_duration.num * prog.total_segments =
         TotalDuration * prog.segment_duration.den
    /\ op = "get_current_level" /\ Started /\ Elapsed < TotalDuration =>
         /\ ret = "value"
         /\ prog.current_segment =
              Min((Elapsed * prog.total_segments) \div TotalDuration + 1,
                  prog.total_segments)
         /\ presult = << LastBreakpointLevel(prog.segments, prog.current_segment) >>
    /\ (prog.segments = << << 1, 5 >>, << 3, 10 >>, << 6, 15 >> >>
          /\ prog.total_segments = 6 /\ prog.duration_minutes = 60) =>
         /\ prog.segment_duration = [num |-> 600, den |-> 1]
         /\ op = "get_current_level" /\ Started /\ Elapsed = 1250 =>
              prog.current_segment = 3 /\ presult = << << 10 >> >>

\* The example program, 1250 s after its start.
C18_Witness ==
  /\ op = "get_current_level"
  /\ prog.segments = << << 1, 5 >>, << 3, 10 >>, << 6, 15 >> >>
  /\ prog.duration_minutes = 60
  /\ prog.start_time = << 0 >> /\ now = 1250
  /\ prog.current_segment = 3
  /\ presult = << << 10 >> >>

\* C19 as stated: for a started program (with segments and a duration), in
\* every state with elapsed >= duration_minutes * 60 completed is true and
\* get_progress reports 100.0 and 0.0, and completed is false in every state
\* with elapsed below the whole duration.
C19_CompletedWhenTimeIsUp ==
  prog.total_segments >= 1 /\ prog.duration_minutes >= 1 /\ Started =>
    /\ Elapsed >= TotalDuration =>
         /\ prog.completed
         /\ op = "get_progress" =>
              presult[1] = [num |-> 100, den |-> 1] /\ presult[2] = [num |-> 0, den |-> 1]
    /\ Elapsed < TotalDuration => ~prog.completed

\* C19 amended: completed is true after every get_current_level call made at
\* elapsed >= duration_minutes * 60, get_progress at such a time reports
\* 100.0 and 0.0, and completed is false in every state with elapsed below
\* the whole duration.
C19_CompletedOnceEvaluated ==
  prog.total_segments >= 1 /\ prog.duration_minutes >= 1 /\ Started =>
    /\ op = "get_current_level" /\ Elapsed >= TotalDuration =>
         ret = "value" /\ prog.completed
    /\ op = "get_progress" /\ Elapsed >= TotalDuration =>
         presult[1] = [num |-> 100, den |-> 1] /\ presult[2] = [num |-> 0, den |-> 1]
    /\ Elapsed < TotalDuration => ~prog.completed

\* The time was up, get_current_level has marked the program completed, and
\* get_progress has reported 100.0 and 0.0.
C19_Witness ==
  /\ op = "get_progress"
  /\ Started /\ prog.duration_minutes = 1 /\ Elapsed >= 60
  /\ prog.completed
  /\ presult[1] = [num |-> 100, den |-> 1]
  /\ presult[2] = [num |-> 0, den |-> 1]

\* C20: completed, once true, stays true across get_current_level,
\* get_progress, get_current_segment_info and calculate_segment_duration;
\* only start() (called on its own or by the dashboard when a program is
\* chosen) sets it back to false, and start() also sets current_segment to 0
\* and start_time to the time of the call.
C20_CompletedUntilStart ==
  [][/\ prog.completed /\ ~prog'.completed =>
          op' \in {"start", "reselect_program"}
     /\ /\ prog.completed
        /\ calls' = calls + 1
        /\ op' \in {"get_current_level", "get_progress",
                     "get_current_segment_info", "calculate_segment_duration"}
        => prog'.completed
     /\ calls' = calls + 1 /\ op' \in {"start", "reselect_program"} =>
          /\ ~prog'.completed
          /\ prog'.current_segment = 0
          /\ prog'.start_time = << now >>]_vars

\* A completed program has been asked for its segment and is still completed.
C20_Witness ==
  /\ op = "get_current_segment_info"
  /\ prog.completed
  /\ prog.current_segment = prog.total_segments
  /\ presult[3] = prog.total_segments

\* The level the program yields at this instant: None, or Some(level).
Target ==
  LET r == get_current_level(prog, now)
  IN IF r.raised THEN None ELSE r.ret[1]

\* C21: update_program_level sends a set-level command only when the level
\* the program computes differs from the level the bike reported last, and
\* then for that level; it evaluates the program at most once per second, so
\* that at least one second lies between any two of its set-level commands;
\* and while the target equals the reported level it sends nothing.
C21_LevelSentOnChangeOncePerSecond ==
  /\ [][op' = "update_program_level" =>
          /\ trace' # << >> =>
               /\ ~IsNone(Target)
               /\ Target[1] # bike.level
               /\ SentFrames(trace') =
                    << LevelFrame(Target[1], bike.resistance_min,
                                  bike.resistance_max) >>
          /\ (prog' # prog \/ dash'.last_level_change # dash.last_level_change
              \/ trace' # << >>) =>
               /\ now - dash.last_level_change >= 1
               /\ dash'.last_level_change = now
          /\ Target = Some(bike.level) => trace' = << >>]_vars
  /\ [](\A j, k \in 1..Len(sentAt) : j < k => sentAt[k] - sentAt[j] >= 1)

\* Two set-level commands have been sent one second apart, the bike not
\* having reported the level asked for.
C21_Witness ==
  /\ op = "update_program_level"
  /\ Len(sentAt) = 2
  /\ sentAt[2] - sentAt[1] = 1
  /\ SentFrames(trace) = << << LT, "C", "R", "_", "0", "4", GT >> >>

\* C27: when the program yields no level (it is not started, it is completed,
\* or no breakpoint lies at or before the current segment),
\* update_program_level sends nothing and leaves the bike as it is.
C27_NoLevelNoCommand ==
  [][op' = "update_program_level" /\ IsNone(Target) =>
       trace' = << >> /\ bike' = bike /\ sentAt' = sentAt]_vars

\* The program was evaluated in its first segment, before its first
\* breakpoint, and nothing was sent.
C27_Witness ==
  /\ op = "update_program_level"
  /\ dash.last_level_change = now
  /\ ~IsNone(prog.start_time)
  /\ ~prog.completed
  /\ prog.current_segment = 1
  /\ prog.segments[1][1] > 1
  /\ trace = << >>
  /\ sentAt = << >>

\* The accumulated data all stand at zero.
Cleared(b) ==
  b.distance = 0 /\ b.calories = 0 /\ b.hi_dist_value = 0 /\ b.old_distance = 0

\* What clear_data has to leave alone.
Instant(b) ==
  << b.rpm, b.heart_rate, b.level, b.watts, b.speed, DeviceInfo(b) >>

\* C22: from every state, one clear_data and a second one right after it each
\* leave distance, calories, hi_dist_value and old_distance at 0 and rpm,
\* heart rate, level, watts, speed and the device information as they were;
\* and so does every clear_data step taken.
C22_ClearDataIdempotent ==
  /\ [](\A f1, f2 \in 0..1 :
          \E b1 \in {clear_data(IO(bike, f1)).bike} :
          \E b2 \in {clear_data(IO(b1, f2)).bike} :
            /\ Cleared(b1) /\ Instant(b1) = Instant(bike)
            /\ Cleared(b2) /\ Instant(b2) = Instant(bike))
  /\ [][op' = "clear_data" => Cleared(bike') /\ Instant(bike') = Instant(bike)]_vars
  /\ [][op = "clear_data" /\ op' = "clear_data" =>
          << bike'.distance, bike'.calories, bike'.hi_dist_value,
             bike'.old_distance >>
          = << bike.distance, bike.calories, bike.hi_dist_value,
               bike.old_distance >>]_vars

\* Two clear_data calls and one decoded frame: the data are cleared, the
\* cadence and the heart rate standing as decoded.
C22_Witness ==
  /\ op = "clear_data"
  /\ calls = 3
  /\ bike.messages_sent = 2
  /\ rawLog = << >>
  /\ Cleared(bike)
  /\ bike.rpm = 60
  /\ bike.heart_rate = 72

\* What the decoder keeps for the field at position k of a W6 frame (the
\* sync counter is position 1): for the distance the odometer state as well.
FieldAt(b, k) ==
  CASE k = 2 -> << b.distance, b.hi_dist_value, b.old_distance >>
    [] k = 3 -> << b.rpm >>
    [] k = 4 -> << b.heart_rate >>
    [] k = 5 -> << b.level >>
    [] k = 6 -> << b.calories >>
    [] k = 7 -> << b.watts >>

\* The width the decoder pads the field at position k to.
WidthAt(k) ==
  CASE k = 2 -> 3 [] k = 3 -> 3 [] k = 4 -> 3 [] k = 5 -> 2 [] k = 6 -> 6
    [] k = 7 -> 3

\* The field at position k is missing, or its text is not a number.
BadField(dp, k) == Len(dp) < k \/ ~IntOK(dp[k])

\* What a decode of the number v at position k stores.
StoredAt(b, k, v) ==
  IF k = 2
  THEN LET hi == IF v < b.old_distance THEN b.hi_dist_value + 1
                 ELSE b.hi_dist_value
       IN << b.wheel_diameter * (hi * 1000 + v), hi, v >>
  ELSE << v >>

\* C23: in a decode of a W6 frame, a field that is missing or not a number
\* leaves its telemetry field (for the distance also hi_dist_value and
\* old_distance) as it was, every field that is a number is decoded and
\* stored, and the decoder does not raise.
C23_BadFieldKeepsPrevious ==
  [][op' = "parse_sport_data" =>
       /\ ret' # "raise"
       /\ \A c \in FieldFrames : ParseSportData(c) =>
            \A k \in 2..7 : \E dp \in {SportFields(c)[1]} :
              IF BadField(dp, k)
              THEN FieldAt(bike', k) = FieldAt(bike, k)
              ELSE FieldAt(bike', k)
                     = StoredAt(bike, k, IntVal(Ljust(dp[k], WidthAt(k))))]_vars

\* C24: a successful decode of a W6 frame stamps last_update, so that once a
\* frame has been decoded (the sync counter of line 282 exists) last_update
\* is not None, and a get_status taken then reports it.
C24_DecodeStampsLastUpdate ==
  ~IsNone(bike.sync) =>
    /\ ~IsNone(bike.last_update)
    /\ op = "get_status" =>
         /\ status = Some(get_status(bike))
         /\ ~IsNone(status[1].last_update)

\* The number the decoder keeps for the field at position k as converted:
\* for the distance the raw counter.
RawAt(b, k) ==
  CASE k = 2 -> b.old_distance [] k = 3 -> b.rpm [] k = 4 -> b.heart_rate
    [] k = 5 -> b.level [] k = 6 -> b.calories [] k = 7 -> b.watts

RECURSIVE Pow10(_)
Pow10(n) == IF n = 0 THEN 1 ELSE 10 * Pow10(n - 1)

\* The value of a string of digits with zeros appended up to width.
RightPadded(text, width) == DecVal(text) * Pow10(width - Len(text))

\* The field at position k is there, all digits, and shorter than width.
ShortDigits(dp, k, width) ==
  Len(dp) >= k /\ IsDigit(dp[k]) /\ Len(dp[k]) < width

\* The widths as C28 states them: three characters for the level.
WidthClaimed(k) == IF k = 5 THEN 3 ELSE WidthAt(k)

\* C28 as stated: a numeric field shorter than its width is converted with
\* zeros appended on the right, the level to three characters: distance '5'
\* gives 500, rpm '9' gives 900 and level '07' gives 70.
C28_RightPaddedLevelThree ==
  [][op' = "parse_sport_data" =>
       \A c \in FieldFrames : ParseSportData(c) =>
         \E dp \in {SportFields(c)[1]} :
           /\ \A k \in 2..7 :
                ShortDigits(dp, k, WidthClaimed(k)) =>
                  RawAt(bike', k) = RightPadded(dp[k], WidthClaimed(k))
           /\ (Len(dp) >= 2 /\ dp[2] = << "5" >>) => bike'.old_distance = 500
           /\ (Len(dp) >= 3 /\ dp[3] = << "9" >>) => bike'.rpm = 900
           /\ (Len(dp) >= 5 /\ dp[5] = << "0", "7" >>) => bike'.level = 70]_vars

\* C28 amended: the same with the level padded to two characters: level '7'
\* gives 70, and the two-character level '07' is converted as it stands, 7.
C28_RightPaddedLevelTwo ==
  [][op' = "parse_sport_data" =>
       \A c \in FieldFrames : ParseSportData(c) =>
         \E dp \in {SportFields(c)[1]} :
           /\ \A k \in 2..7 :
                ShortDigits(dp, k, WidthAt(k)) =>
                  RawAt(bike', k) = RightPadded(dp[k], WidthAt(k))
           /\ (Len(dp) >= 2 /\ dp[2] = << "5" >>) => bike'.old_distance = 500
           /\ (Len(dp) >= 3 /\ dp[3] = << "9" >>) => bike'.rpm = 900
           /\ (Len(dp) >= 5 /\ dp[5] = << "7" >>) => bike'.level = 70
           /\ (Len(dp) >= 5 /\ dp[5] = << "0", "7" >>) => bike'.level = 7]_vars

\* The frame <W6_1,5,9,7,07,5,1> has been decoded.
C28_Witness ==
  /\ op = "parse_sport_data"
  /\ bike.sync = Some(1)
  /\ bike.old_distance = 500
  /\ bike.rpm = 900
  /\ bike.heart_rate = 700
  /\ bike.level = 7
  /\ bike.calories = 500000
  /\ bike.watts = 100

\* C29: in every reachable state the previous raw counter, old_distance, is
\* an integer from 0 to 999, whatever the distance fields of the W6 frames.
C29_PreviousRawInDomain == bike.old_distance \in 0..999

\* C26: every frame set_level sends is <CR_nn> with exactly two decimal
\* digits, whatever the level asked for and whatever range parse_command has
\* stored from an <ER_min-max> frame, the range 0-0 of a new object included.
C26_LevelFrameAlwaysTwoDigits ==
  [][op' = "set_level" => \E k \in 0..99 : SendsLevel(trace', k)]_vars

\* The part of the telemetry record that only a decode may write.
Readings(b) == << b.rpm, b.heart_rate, b.level, b.watts, b.speed >>

\* The step handled a W6 frame: parse_sport_data ran.
IsDecode(ev) == ev.e = "parse" /\ ev.res = "sport_data"

Decodes(tr) == SelectSeq(tr, IsDecode) # << >>

\* C30: rpm, heart_rate, level, watts and speed are written by the telemetry
\* decoder only; connect, disconnect, send, receive, set_level, start_sport,
\* pause_sport and the handling of a frame that is not a W6 frame leave every
\* telemetry field as it was; clear_data changes distance and calories only.
C30_DecoderOnlyWriter ==
  [][/\ Readings(bike') # Readings(bike) =>
          op' = "parse_sport_data" \/ Decodes(trace')
     /\ Telemetry(bike') # Telemetry(bike) =>
          op' \in {"parse_sport_data", "clear_data"} \/ Decodes(trace')
     /\ op' \in {"connect", "disconnect", "send", "receive", "set_level",
                 "start_sport", "pause_sport"} =>
          Telemetry(bike') = Telemetry(bike)
     /\ (op' \in {"parse_command", "init_handle", "upd_handle"}
         /\ ~Decodes(trace')) =>
          Telemetry(bike') = Telemetry(bike)
     /\ op' = "clear_data" =>
          /\ Readings(bike') = Readings(bike)
          /\ bike'.distance = 0
          /\ bike'.calories = 0]_vars

\* A level has been set after telemetry was decoded, which stands as decoded.
C30_Witness ==
  /\ op = "set_level"
  /\ Len(trace) = 1
  /\ trace[1].res = "ok"
  /\ bike.rpm = 100
  /\ bike.speed = 5500
  /\ bike.distance > 0

\* C25: a dictionary of get_status built by another thread while the
\* protocol thread decodes a W6 frame or clears the data never shows a record
\* caught in the middle of an update: its seven telemetry fields are those
\* the object held before the update, or those it held after it.
C25_SnapshotNeverTorn ==
  op = "get_status" => Telemetry(status[1]) \in reader.seen

\* C31: an optional Unit (EU) or Vendor (EV) frame handled by initialize is
\* answered with the acknowledgement of its own code, <EU_OK> or <EV_OK>,
\* before the next frame is handled, and does not end the handshake.
C31_OptionalFrameAnswered ==
  [][op' = "init_handle" /\ pc = "init_handle"
       /\ trace'[1].res \in {"unit", "ev_data"} =>
          /\ SentFrames(trace') = << Frame(CmdOf(trace'[1].frame), OK) >>
          /\ init_done' = init_done
          /\ ret' = "-"]_vars

IsOk(ev) == ev.e = "send" /\ ev.res = "ok"

IsFail(ev) == ev.e = "send" /\ ev.res = "fail"

\* The object after a call differs from the object before it in the sent
\* counter, which grew by the writes that succeeded, and in connected, which
\* changed only when a write failed.
OnlySentAndConnected(b, after, tr) ==
  /\ \A f \in DOMAIN b \ {"messages_sent", "connected"} : after[f] = b[f]
  /\ after.messages_sent = b.messages_sent + Len(SelectSeq(tr, IsOk))
  /\ after.connected # b.connected => SelectSeq(tr, IsFail) # << >>

\* The same call made on the object with the initialized flag the other way.
Flipped(b) == [b EXCEPT !.initialized = ~b.initialized]

\* C32: start_sport calls send with <WB_6> and then <CP_000>, pause_sport
\* calls send with <CP_300> alone; the calls do the same with initialized true
\* or false, and change nothing of the object but the sent counter and, on a
\* write failure, connected.
C32_SportCommandsOneShot ==
  [][/\ \A fail \in 0..2 : StartSport(fail) =>
          /\ SentFrames(trace') = << WB_6, CP_000 >>
          /\ OnlySentAndConnected(bike, bike', trace')
          /\ \E r \in {send(send(IO(Flipped(bike), fail), WB_6), CP_000)} :
               bike' = Flipped(r.bike) /\ trace' = r.trace
     /\ \A fail \in 0..1 : PauseSport(fail) =>
          /\ SentFrames(trace') = << CP_300 >>
          /\ OnlySentAndConnected(bike, bike', trace')
          /\ \E r \in {send(IO(Flipped(bike), fail), CP_300)} :
               bike' = Flipped(r.bike) /\ trace' = r.trace]_vars

\* start_sport on an initialized bike has written both frames.
C32_Witness ==
  /\ op = "start_sport"
  /\ bike.initialized
  /\ trace = << [e |-> "send", frame |-> WB_6, res |-> "ok"],
                [e |-> "send", frame |-> CP_000, res |-> "ok"] >>

\* The position of a running initialize in its loop, later positions lower.
Rank(p) ==
  CASE p = "init_recv" -> 3
    [] p = "init_handle" -> 2
    [] p = "init_exit" -> 1
    [] OTHER -> 0

\* A step of a running call moves it forward: to a later iteration, or within
\* the iteration to a later position, or to the next frame of the read.
MovesForward ==
  \/ pc' = "idle"
  \/ i' > i /\ i' <= PollCeiling
  \/ i' = i /\ Rank(pc') < Rank(pc)
  \/ i' = i /\ pc' = pc /\ Len(responses') < Len(responses)

\* C33: initialize always terminates: whatever the device sends or fails to
\* send, every step of a call moves it forward in its loop, it makes at most
\* PollCeiling receives, and it ends by returning.
C33_InitializeReturnsWithinCeiling ==
  [][/\ pc # "idle" => MovesForward
     /\ op' = "init_receive" => i < PollCeiling
     /\ op' \in {"initialize", "init_handle", "init_return"} /\ pc' = "idle" =>
          ret' \in {"True", "False"}]_vars

\* The same with the steps in which parse_command raises set aside.
TerminatesUnlessParseRaises ==
  [][/\ pc # "idle" => MovesForward
     /\ op' = "init_receive" => i < PollCeiling
     /\ op' \in {"initialize", "init_handle", "init_return"} /\ pc' = "idle" =>
          ret' \in {"True", "False", "raise"}]_vars

\* C34: initialize returns False only when the initial <EQ_> send fails, and
\* then it makes no receive and leaves initialized and the device information
\* as they were; in every other case it returns True, and whenever it returns
\* True the object is still connected.
C34_FalseOnlyOnFirstSend ==
  [][/\ \A fail \in 0..1 : Initialize(fail) =>
          /\ (ret' = "False") = (trace'[1].res # "ok")
          /\ ret' = "False" =>
               /\ pc' = "idle"
               /\ Len(trace') = 1
               /\ bike'.initialized = bike.initialized
               /\ DeviceInfo(bike') = DeviceInfo(bike)
     /\ pc # "idle" /\ pc' = "idle" => ret' = "True" /\ bike'.connected]_vars

\* Its last conjunct for the calls in which parse_command does not raise.
TrueMeansConnected ==
  [][pc # "idle" /\ pc' = "idle" /\ ret' = "True" => bike'.connected]_vars

\* C35: once initialize has sent <CP_300> after InitComplete it calls send no
\* more and changes no device information and no telemetry field before it
\* returns, even when the read carried more frames after the Ez frame.
C35_NothingAfterPause ==
  [][pc = "init_handle" /\ init_done /\ op' = "init_handle" =>
       /\ Sends(trace') = << >>
       /\ DeviceInfo(bike') = DeviceInfo(bike)
       /\ Telemetry(bike') = Telemetry(bike)]_vars

\* A frame whose code starts with W6.
IsW6(frame) == StartsWith(CmdOf(frame), W6)

\* C36: an update_data call on a connected bike calls send with <WB_6> first
\* and then at most once with <W6_OK>; it sends <W6_OK> and returns True
\* exactly when the read contains a frame whose code starts with W6; the
\* frames of the read before the first such frame are parsed, one after the
\* other, and the frames after it are not.
C36_UpdateAnswersFirstTelemetry ==
  [][/\ op' = "update_data" /\ bike.connected =>
          /\ SentFrames(trace') = << WB_6 >>
          /\ trace'[1].e = "send"
          /\ pc' = "idle" => ret' = "False" /\ Falsy(rx')
          /\ pc' = "upd_handle" => responses' = rx'[1]
     /\ op' = "upd_handle" =>
          /\ trace'[1].e = "parse" /\ trace'[1].frame = Head(responses)
          /\ IF IsW6(Head(responses))
             THEN /\ SentFrames(trace') = << W6_OK >>
                  /\ ret' = "True"
                  /\ pc' = "idle"
             ELSE /\ SentFrames(trace') = << >>
                  /\ IF Len(responses) > 1
                     THEN /\ pc' = "upd_handle"
                          /\ responses' = Tail(responses)
                     ELSE pc' = "idle" /\ ret' = "False"]_vars

\* C37: the device frame <W6_OK> is classified by parse_command as
\* 'sport_ack', leaves every telemetry field as it was, and is not answered
\* with <W6_OK> by update_data.
C37_TelemetryAckNotAnswered ==
  [][op' = "upd_handle" /\ Head(responses) = W6_OK =>
       /\ trace'[1].res = "sport_ack"
       /\ Telemetry(bike') = Telemetry(bike)
       /\ SentFrames(trace') = << >>]_vars

\* C38: for every started program whose segment_duration is the one
\* calculate_segment_duration gives it, a program with total_segments 0
\* included, get_current_level returns a level or None and does not raise.
C38_CurrentLevelNeverRaises ==
  /\ op = "get_current_level"
  /\ Started
  /\ prog.segment_duration = calculate_segment_duration(prog).segment_duration
  => ret = "value"

\* The same for the programs with at least one segment.
CurrentLevelReturnsWithSegments ==
  /\ op = "get_current_level"
  /\ Started
  /\ prog.total_segments >= 1
  /\ prog.segment_duration = calculate_segment_duration(prog).segment_duration
  /\ prog.duration_minutes >= 1
  => ret = "value"

\* C39: for a program with total_segments >= 1, 0 <= current_segment <=
\* total_segments in every reachable state, and current_segment never goes
\* down from one call to the next, time going forward, except by start().
C39_SegmentBoundedMonotone ==
  [][prog.total_segments >= 1 =>
       /\ prog.current_segment \in 0..prog.total_segments
       /\ prog'.current_segment \in 0..prog'.total_segments
       /\ now' >= now
       /\ prog'.current_segment < prog.current_segment =>
            op' \in {"start", "reselect_program"}]_vars

\* A program of six segments has been asked for its level after its time was
\* up: it is completed and at its last segment.
C39_Witness ==
  /\ op = "get_current_level"
  /\ ret = "value"
  /\ prog.total_segments = 6
  /\ prog.current_segment = 6
  /\ prog.completed
  /\ now > prog.start_time[1] + TotalDuration

\* C40: update_program_level has no effect when there is no active program,
\* the dashboard is paused, or the bike is disconnected: it sends nothing and
\* leaves last_level_change and the program's current_segment and completed
\* as they were; and a call made once the program is completed sends no
\* set-level command, until a program is started again.
C40_GuardedAndQuietWhenCompleted ==
  [][op' = "update_program_level" =>
       /\ (~dash.active_program \/ dash.paused \/ ~bike.connected) =>
            /\ trace' = << >>
            /\ bike' = bike
            /\ dash' = dash
            /\ prog' = prog
       /\ prog.completed =>
            /\ trace' = << >>
            /\ bike' = bike
            /\ prog' = prog
            /\ dash'.last_level_change = dash.last_level_change]_vars

\* A call on a paused dashboard, at a time when the started program asks for
\* a level the bike has not reported, has sent nothing.
C40_Witness ==
  /\ op = "update_program_level"
  /\ dash.paused /\ dash.active_program /\ bike.connected
  /\ Started
  /\ now - dash.last_level_change >= 1
  /\ ~IsNone(Target) /\ Target[1] # bike.level
  /\ trace = << >>

\* A call on a completed program, after a call that sent the level of the
\* last segment, has sent nothing.
QuietWhenCompletedWitness ==
  /\ op = "update_program_level"
  /\ prog.completed /\ dash.program_completed
  /\ Len(sentAt) >= 1
  /\ trace = << >>

====
